---------------------------- MODULE Spec2Model ----------------------------
(***************************************************************************)
(* A model of the farm-management web client (TadiKev/ai-cattle-diagnosis). *)
(*                                                                         *)
(* Text is a sequence of one-character strings, so that trimming, lower-   *)
(* casing, substring search and CSV quoting are computed, not assumed.     *)
(* A confidence is held in thousandths (900 is 0.9); a creation timestamp  *)
(* is an instant counted from the epoch.  NoValue marks an absent number.  *)
(* An absent text field is the empty text: every read of such a field in   *)
(* the code goes through `||`, which treats "" and undefined alike.        *)
(***************************************************************************)
EXTENDS Integers, Sequences, FiniteSets, TLC

\* ------------------------------------------------------------------ bounds
\* The pipeline's pure functions are applied to every list over RecordPool
\* of at most this many records.
MaxLen == 3
\* The history view loads a response of at most this many records.
MaxRecords == 13
\* The CSV export is applied to records whose free-text fields are every text
\* of at most this many characters over CsvChars.
MaxField == 2

NoValue == -1

\* ------------------------------------------------------------------- text
UpperChars == <<"A","B","C","D","E","F","G","H","I","J","K","L","M",
                "N","O","P","Q","R","S","T","U","V","W","X","Y","Z">>
LowerChars == <<"a","b","c","d","e","f","g","h","i","j","k","l","m",
                "n","o","p","q","r","s","t","u","v","w","x","y","z">>
WhiteSpace == {" ", "\t", "\n"}
Digits == <<"0","1","2","3","4","5","6","7","8","9">>

UpperSet == {UpperChars[i] : i \in 1..26}
LowerOf == [c \in UpperSet |-> LowerChars[CHOOSE i \in 1..26 : UpperChars[i] = c]]
ToLowerChar(c) == IF c \in UpperSet THEN LowerOf[c] ELSE c

\* String.prototype.toLowerCase
ToLowerCase(s) == [i \in 1..Len(s) |-> ToLowerChar(s[i])]

RECURSIVE TrimStart(_)
TrimStart(s) ==
  IF s # <<>> /\ Head(s) \in WhiteSpace THEN TrimStart(Tail(s)) ELSE s

RECURSIVE TrimEnd(_)
TrimEnd(s) ==
  IF s # <<>> /\ s[Len(s)] \in WhiteSpace
    THEN TrimEnd(SubSeq(s, 1, Len(s) - 1))
    ELSE s

\* String.prototype.trim
Trim(s) == TrimEnd(TrimStart(s))

\* Whether q occurs in s at (0-based) offset k.
MatchesAt(s, q, k) ==
  /\ k + Len(q) <= Len(s)
  /\ \A j \in 1..Len(q) : s[k + j] = q[j]

RECURSIVE IncludesFrom(_, _, _)
IncludesFrom(s, q, k) ==
  IF k + Len(q) > Len(s) THEN FALSE
  ELSE IF MatchesAt(s, q, k) THEN TRUE
  ELSE IncludesFrom(s, q, k + 1)

\* String.prototype.includes
Includes(s, q) == IncludesFrom(s, q, 0)

\* String(n) for a non-negative integer.
RECURSIVE NumStr(_)
NumStr(n) ==
  IF n < 10 THEN <<Digits[n + 1]>>
  ELSE NumStr(n \div 10) \o <<Digits[(n % 10) + 1]>>

\* Math.max / Math.min
Max(a, b) == IF a >= b THEN a ELSE b
Min(a, b) == IF a <= b THEN a ELSE b

\* -------------------------------------------------------- text constants
STR_Unknown == <<"U","n","k","n","o","w","n">>
STR_NoPrediction == <<"N","o"," ","p","r","e","d","i","c","t","i","o","n">>
STR_CattleHash == <<"C","a","t","t","l","e"," ","#">>
STR_all == <<"a","l","l">>
STR_low == <<"l","o","w">>
STR_medium == <<"m","e","d","i","u","m">>
STR_high == <<"h","i","g","h">>
STR_High == <<"H","i","g","h">>
STR_Bossy == <<"B","o","s","s","y">>
STR_Bo == <<"B","o">>
STR_T1 == <<"T","1">>
STR_T2 == <<"T","2">>
STR_Flu == <<"F","l","u">>
STR_Pox == <<"P","o","x">>
STR_BSE == <<"B","S","E">>
STR_vet == <<"v","e","t">>
STR_approved == <<"a","p","p","r","o","v","e","d">>
STR_rejected == <<"r","e","j","e","c","t","e","d">>
STR_NoRows == <<"N","o"," ","r","o","w","s"," ","t","o"," ","e","x","p","o","r","t">>

\* ---------------------------------------------------------------- records
\* A JSON value that is absent, a text, or an object with a text field
\* (`disease` for a prediction, `username` for a reviewer).
NoneV == [k |-> "none", s |-> <<>>]
StrV(s) == [k |-> "str", s |-> s]
ObjV(s) == [k |-> "obj", s |-> s]

\* The `cattle` reference of a diagnosis: absent, an id, or a nested object
\* (`num` is the id, or the nested object's `id`; 0 when it has none).
NoCattle == [k |-> "none", name |-> <<>>, tag_number |-> <<>>, num |-> 0]
CattleId(n) == [k |-> "num", name |-> <<>>, tag_number |-> <<>>, num |-> n]
CattleObj(name, tag) == [k |-> "obj", name |-> name, tag_number |-> tag, num |-> 0]

\* JavaScript truthiness of a modelled JSON value.
Truthy(v) == v.k = "obj" \/ (v.k = "str" /\ v.s # <<>>)

DiagnosisRecord(cattle, cattle_name, ml_top, top_processed, top_prediction, predictions, confidence, severity, created_at, review_status, reviewed_by) ==
  [ id |-> 0,
    cattle |-> cattle,
    cattle_name |-> cattle_name,
    ml_top_processed |-> ml_top,
    top_processed |-> top_processed,
    top_prediction |-> top_prediction,
    predictions |-> predictions,
    confidence |-> confidence,
    severity |-> severity,
    submitted_by |-> <<>>,
    created_at |-> created_at,
    review_status |-> review_status,
    ml_review_status |-> <<>>,
    reviewed_by |-> reviewed_by ]

\* Representative diagnosis records the backend serves: every branch of the
\* display-name and display-disease fallbacks, ties in confidence and in
\* timestamp, an absent confidence next to a zero one, an absent timestamp,
\* and a severity in another letter case.
RecordPool == <<
  DiagnosisRecord(CattleObj(STR_Bossy, STR_T1), <<>>, NoneV, NoneV,
                  ObjV(STR_Flu), <<ObjV(STR_Flu), ObjV(STR_Pox)>>,
                  900, STR_high, 2, STR_approved, ObjV(STR_vet)),
  DiagnosisRecord(CattleObj(<<>>, STR_T2), <<>>, NoneV, NoneV,
                  NoneV, <<ObjV(STR_Pox)>>,
                  400, STR_low, 1, <<>>, NoneV),
  DiagnosisRecord(CattleId(7), <<>>, NoneV, StrV(STR_Flu),
                  ObjV(STR_Pox), <<>>,
                  NoValue, STR_High, NoValue, <<>>, StrV(STR_vet)),
  DiagnosisRecord(NoCattle, STR_Bo, ObjV(STR_BSE), NoneV,
                  NoneV, <<>>,
                  0, <<>>, 2, <<>>, NoneV),
  DiagnosisRecord(NoCattle, <<>>, NoneV, NoneV,
                  NoneV, <<>>,
                  400, STR_medium, 1, <<>>, NoneV) >>

PoolSize == Len(RecordPool)

\* The backend numbers the records of a response 1, 2, ...
WithIds(s) == [i \in 1..Len(s) |-> [s[i] EXCEPT !.id = i]]

RECURSIVE SeqsUpTo(_, _)
SeqsUpTo(S, n) ==
  IF n = 0 THEN {<<>>}
  ELSE LET shorter == SeqsUpTo(S, n - 1)
       IN shorter \cup {Append(s, x) : s \in {t \in shorter : Len(t) = n - 1}, x \in S}

\* Every list of at most MaxLen pool records, numbered.
ShortLists == {WithIds(s) : s \in SeqsUpTo({RecordPool[i] : i \in 1..PoolSize}, MaxLen)}

\* The arrays GET /api/diagnosis/ may return to the history view: n records
\* cycling through the pool, for every n up to MaxRecords.
Responses == {WithIds([i \in 1..n |-> RecordPool[((i * 3) % PoolSize) + 1]]) : n \in 0..MaxRecords}

\* ------------------------------------------- DiagnosisHistory: derivations
\* getCattleName(item)
GetCattleName_TagFirst(item) ==
  IF item.cattle.k = "obj" THEN
    IF item.cattle.tag_number # <<>> THEN item.cattle.tag_number
    ELSE IF item.cattle.name # <<>> THEN item.cattle.name
    ELSE STR_Unknown
  ELSE IF item.cattle_name # <<>> THEN item.cattle_name
  ELSE IF item.cattle.k = "num" /\ item.cattle.num # 0
    THEN STR_CattleHash \o NumStr(item.cattle.num)
  ELSE STR_Unknown
GetCattleName(item) ==
  IF item.cattle.k = "obj" THEN
    IF item.cattle.name # <<>> THEN item.cattle.name
    ELSE IF item.cattle.tag_number # <<>> THEN item.cattle.tag_number
    ELSE STR_Unknown
  ELSE IF item.cattle_name # <<>> THEN item.cattle_name
  ELSE IF item.cattle.k = "num" /\ item.cattle.num # 0
    THEN STR_CattleHash \o NumStr(item.cattle.num)
  ELSE STR_Unknown

\* `v.disease || v` for a truthy v: the disease of an object, the text itself
\* for a text.  (For an object without a disease the code yields the object;
\* RecordPool holds no such prediction.)
DiseaseOrSelf(v) == v.s

\* getTopDisease(item)
GetTopDisease(item) ==
  LET topProcessed == IF Truthy(item.ml_top_processed)
                        THEN item.ml_top_processed ELSE item.top_processed
      top == IF Truthy(item.top_prediction) THEN item.top_prediction
             ELSE IF Len(item.predictions) > 0 THEN item.predictions[1]
             ELSE NoneV
  IN IF Truthy(topProcessed) THEN DiseaseOrSelf(topProcessed)
     ELSE IF Truthy(top) THEN DiseaseOrSelf(top)
     ELSE STR_NoPrediction

\* The predicate of list.filter in `filtered`
MatchesSearch_CaseSensitive(item, q) ==
  q = <<>> \/ Includes(GetCattleName(item), q) \/ Includes(GetTopDisease(item), q)
MatchesSearch(item, q) ==
  \/ q = <<>>
  \/ Includes(ToLowerCase(GetCattleName(item)), q)
  \/ Includes(ToLowerCase(GetTopDisease(item)), q)

MatchesSeverity(item, sev) ==
  IF sev = STR_all THEN TRUE ELSE ToLowerCase(item.severity) = sev

\* list.filter(...): Array.prototype.filter keeps the matching elements in order.
FilterList_DropsFirstMatch(l, q, sev) ==
  LET Keep(item) == MatchesSearch(item, q) /\ MatchesSeverity(item, sev)
      kept == SelectSeq(l, Keep)
  IN IF kept = <<>> THEN kept ELSE Tail(kept)
FilterList(l, q, sev) ==
  LET Keep(item) == MatchesSearch(item, q) /\ MatchesSeverity(item, sev)
  IN SelectSeq(l, Keep)

\* `filtered`
FilteredOf(l, srch, sev) == FilterList(l, ToLowerCase(Trim(srch)), sev)

\* new Date(x || 0).getTime(): an absent timestamp reads as the epoch.
DateOf(t) == IF t = NoValue THEN 0 ELSE t
\* (x || 0) for a confidence
ConfOf_AbsentBelowZero(c) == c
ConfOf(c) == IF c = NoValue THEN 0 ELSE c

\* The comparator handed to arr.sort for each sort key; 0 for an unknown key.
Comparator_Ascending(key, a, b) ==
  CASE key = "newest" -> DateOf(a.created_at) - DateOf(b.created_at)
    [] key = "oldest" -> DateOf(a.created_at) - DateOf(b.created_at)
    [] key = "confidence_desc" -> ConfOf(a.confidence) - ConfOf(b.confidence)
    [] key = "confidence_asc" -> ConfOf(a.confidence) - ConfOf(b.confidence)
    [] OTHER -> 0
Comparator(key, a, b) ==
  CASE key = "newest" -> DateOf(b.created_at) - DateOf(a.created_at)
    [] key = "oldest" -> DateOf(a.created_at) - DateOf(b.created_at)
    [] key = "confidence_desc" -> ConfOf(b.confidence) - ConfOf(a.confidence)
    [] key = "confidence_asc" -> ConfOf(a.confidence) - ConfOf(b.confidence)
    [] OTHER -> 0

\* Array.prototype.sort is a stable sort: x goes right behind the last element
\* that does not compare greater than it.
InsertSorted(acc, x, key) ==
  LET notAfter == {i \in 1..Len(acc) : Comparator(key, acc[i], x) <= 0}
      k == IF notAfter = {} THEN 0 ELSE CHOOSE i \in notAfter : \A j \in notAfter : j <= i
  IN SubSeq(acc, 1, k) \o <<x>> \o SubSeq(acc, k + 1, Len(acc))

\* arr.sort(comparator), element by element from the i-th on
RECURSIVE SortFrom(_, _, _, _)
SortFrom(acc, arr, i, key) ==
  IF i > Len(arr) THEN acc
  ELSE SortFrom(InsertSorted(acc, arr[i], key), arr, i + 1, key)

\* `sorted`
SortedOf(f, key) == SortFrom(<<>>, f, 1, key)

\* Math.ceil(n / p) for n >= 0, p >= 1
CeilDiv(n, p) == IF n % p = 0 THEN n \div p ELSE (n \div p) + 1

\* `pageCount`
PageCountOf_NoMinimum(n, p) == CeilDiv(n, p)
PageCountOf(n, p) == Max(1, CeilDiv(n, p))

\* Array.prototype.slice(from, to) with 0 <= from <= to
Slice(s, from, to) == SubSeq(s, Min(from, Len(s)) + 1, Min(to, Len(s)))

\* `visible`
VisibleOf_FromNextRow(s, pg, p) == Slice(s, pg * p + 1, pg * p + p)
VisibleOf(s, pg, p) == Slice(s, pg * p, pg * p + p)

\* The clamp effect: if (page >= pageCount) setPage(Math.max(0, pageCount - 1))
Clamp(pg, pc) == IF pg >= pc THEN Max(0, pc - 1) ELSE pg

\* ------------------------------------------------ DiagnosisHistory: export
STR_ObjectObject == <<"[","o","b","j","e","c","t"," ","O","b","j","e","c","t","]">>
STR_Header == <<"i","d",",","c","a","t","t","l","e",",","d","i","s","e","a","s","e",",",
  "c","o","n","f","i","d","e","n","c","e",",","s","e","v","e","r","i","t","y",",",
  "s","u","b","m","i","t","t","e","d","_","b","y",",","c","r","e","a","t","e","d","_","a","t",",",
  "r","e","v","i","e","w","_","s","t","a","t","u","s",",","r","e","v","i","e","w","e","d","_","b","y">>

\* The text the backend sent for a creation timestamp.
TimeText(t) == IF t = NoValue THEN <<>> ELSE <<"T">> \o NumStr(t)

\* Math.round(c * 100) for a confidence c held in thousandths
RoundPercent(c) == (c + 5) \div 10

\* One element of `rows` (the object literal of sorted.map)
ExportRow(d) ==
  [ id |-> d.id,
    cattle |-> GetCattleName(d),
    disease |-> GetTopDisease(d),
    confidence |-> IF d.confidence # NoValue /\ d.confidence # 0
                     THEN NumStr(RoundPercent(d.confidence)) \o <<"%">>
                     ELSE <<>>,
    severity |-> d.severity,
    submitted_by |-> d.submitted_by,
    created_at |-> TimeText(d.created_at),
    review_status |-> IF d.review_status # <<>> THEN d.review_status
                      ELSE d.ml_review_status,
    reviewed_by |-> IF d.reviewed_by.k = "obj" /\ d.reviewed_by.s # <<>>
                      THEN StrV(d.reviewed_by.s)
                      ELSE IF Truthy(d.reviewed_by) THEN d.reviewed_by
                      ELSE StrV(<<>>) ]

\* `rows`
ExportRows(s) == [i \in 1..Len(s) |-> ExportRow(s[i])]

\* .replace(/"/g, '""')
DoubleQuotes_Kept(s) == s
RECURSIVE DoubleQuotes(_)
DoubleQuotes(s) ==
  IF s = <<>> THEN <<>>
  ELSE (IF Head(s) = "\"" THEN <<"\"", "\"">> ELSE <<Head(s)>>) \o DoubleQuotes(Tail(s))

\* `"${String(x || "").replace(/"/g, '""')}"` for a text x
CsvField(x) == <<"\"">> \o DoubleQuotes(x) \o <<"\"">>

\* String(r.id || "") and String(r.reviewed_by || "")
IdText(n) == IF n = 0 THEN <<>> ELSE NumStr(n)
ValText(v) == IF v.k = "obj" THEN STR_ObjectObject ELSE v.s

\* keys.map(...).join(",") for one row
CsvLine(r) ==
  CsvField(IdText(r.id)) \o <<",">> \o CsvField(r.cattle) \o <<",">>
    \o CsvField(r.disease) \o <<",">> \o CsvField(r.confidence) \o <<",">>
    \o CsvField(r.severity) \o <<",">> \o CsvField(r.submitted_by) \o <<",">>
    \o CsvField(r.created_at) \o <<",">> \o CsvField(r.review_status) \o <<",">>
    \o CsvField(ValText(r.reviewed_by))

\* The lines of `csv`, which the code joins with "\n" into the blob's text.
CsvLines(rows) == <<STR_Header>> \o [i \in 1..Len(rows) |-> CsvLine(rows[i])]

\* Array.prototype.join(sep) from the i-th element on
RECURSIVE JoinFrom(_, _, _)
JoinFrom(parts, sep, i) ==
  IF i > Len(parts) THEN <<>>
  ELSE IF i = Len(parts) THEN parts[i]
  ELSE parts[i] \o sep \o JoinFrom(parts, sep, i + 1)

\* `csv`: [header, ...lines].join("\n"), the text of the downloaded blob
CsvText(lines) == JoinFrom(lines, <<"\n">>, 1)

\* What a handler shows or hands to the user besides the rendered view.
NoOutput == [kind |-> "none", text |-> <<>>, lines |-> <<>>]
AlertOutput(msg) == [kind |-> "alert", text |-> msg, lines |-> <<>>]
DownloadOutput(lines) == [kind |-> "download", text |-> <<>>, lines |-> lines]

\* ------------------------------------------------- DiagnosisHistory: state
VARIABLES
  list,            \* useState([]): the loaded diagnoses
  loading,         \* useState(true)
  search,          \* useState("")
  severityFilter,  \* useState("all")
  sortBy,          \* useState("newest")
  page,            \* useState(0)
  itemsPerPage,    \* useState(8)
  mounted,         \* the load effect's `mounted` flag
  req,             \* the GET /api/diagnosis/ request of this mount (no copy of its body)
  gets,            \* how many GET /api/diagnosis/ requests this mount issued
  out,             \* the alert or download the last step produced
  last,            \* the last step taken, with the page and page size before it
  \* The list pipeline's functions applied to drawn inputs
  pIn,             \* the inputs: list, search text, severity filter, sort key
  pFiltered,       \* `filtered` for pIn
  pSorted,         \* `sorted` for pFiltered
  pAgain,          \* `filtered` for pFiltered in place of the list
  pStage,          \* "input", "filtered", "sorted", "refiltered"
  \* Dashboard
  dash_cattle,     \* useState([])
  dash_diagnoses,  \* useState([])
  dash_loading,    \* useState(true)
  dash_cancelled,  \* the load effect's `cancelled` flag
  dash_reqCattle,  \* GET /api/cattle/ of Promise.all
  dash_reqDiag,    \* GET /api/diagnosis/ of Promise.all
  dash_settled,    \* whether the awaited Promise.all has settled
  \* DiagnosisDetail
  det_diagnosis,   \* useState(null): <<>> for null, else <<record>>
  det_loading,     \* useState(true)
  det_mounted,     \* the fetch effect's `mounted` flag
  det_req,         \* GET /api/diagnosis/{id}/ of the current run of the fetch effect
  det_id,          \* useParams().id: the diagnosis id in the route
  det_stale,       \* ids whose request, of an earlier run of the effect, is still in flight
  \* CattleRecords
  cr_list,         \* useState([])
  cr_unmounted,    \* whether the component has been unmounted
  cr_req,          \* GET /api/cattle/ of loadCattle
  \* NewDiagnosis
  nd_cattleOptions, \* useState([])
  nd_unmounted,    \* whether the component has been unmounted
  nd_req,          \* GET /api/cattle/ of the loadCattle effect
  nd_files,        \* useState([]): the selected files
  nd_selected,     \* e.target.files of the onFiles call of the last step, else <<>>
  nd_alert,        \* whether the last step showed the "must be an image" alert
  \* AuthProvider, the HTTP client and Layout
  auth_user,       \* useState(null): "" for null, else the profile
  auth_loading,    \* useState(true)
  auth_authenticating, \* useState(false)
  stored,          \* localStorage["access_token"]: "" when absent
  header,          \* api.defaults.headers.common["Authorization"]: "" when absent
  boot,            \* the bootstrap effect: its stage and the token its GET carried
  lgn,             \* the login() call: stage, token carried, session before it
  reg,             \* the register() call
  rfr,             \* the refreshProfile() call
  lay_authenticated, \* Layout: useState(false)
  reloading,       \* window.location.reload() was called, the page not yet replaced
  sent,            \* the request the last step sent through the client, if it sent one
  cleared,         \* logout() ran and no call started after it has signed in
  auth_alert,      \* whether the last step ended in a form's submit handler alerting
  \* CattleRecords: the modal form and the mutating requests
  cr_showModal,    \* useState(false)
  cr_form,         \* useState({ id: null, ... }): id 0 for null
  cr_submit,       \* the POST or PUT of submitForm
  cr_delete,       \* the DELETE of deleteCattle
  cr_alert,        \* whether the last step alerted
  \* DiagnosisDetail's ReviewModal
  det_showReview,  \* useState(false)
  rv_saving,       \* ReviewModal: useState(false)
  rv_req,          \* POST /api/diagnosis/{id}/review/
  rv_out           \* what the last step of submit() did: alert shown, onSaved called

histVars == <<list, loading, search, severityFilter, sortBy, page, itemsPerPage,
              mounted, req, gets, out, last>>

\* The options of the "Items per page" select
PageSizes == {6, 8, 12, 24}
\* The options of the "Sort" select
SortKeys == {"newest", "oldest", "confidence_desc", "confidence_asc"}
\* The options of the "Filter by severity" select
SeverityOptions == {STR_all, STR_low, STR_medium, STR_high}
\* Texts typed into the search box
SearchInputs == {<<>>, <<" ">>, <<" ", "O">>}

Pending == [status |-> "pending", isArray |-> FALSE, data |-> <<>>]
Fulfilled(isArray, data) == [status |-> "fulfilled", isArray |-> isArray, data |-> data]
Rejected == [status |-> "rejected", isArray |-> FALSE, data |-> <<>>]

Filtered == FilteredOf(list, search, severityFilter)
Sorted == SortedOf(Filtered, sortBy)
PageCount == PageCountOf(Len(Sorted), itemsPerPage)
Visible == VisibleOf(Sorted, page, itemsPerPage)

Step(op) == [op |-> op, page |-> page, size |-> itemsPerPage]

\* State of a freshly mounted DiagnosisHistory whose load effect has run.
InitHistory ==
  /\ list = <<>>
  /\ loading = TRUE
  /\ search = <<>>
  /\ severityFilter = STR_all
  /\ sortBy = "newest"
  /\ page = 0
  /\ itemsPerPage = 8
  /\ mounted = TRUE
  /\ req = Pending
  /\ gets = 1
  /\ out = NoOutput
  /\ last = [op |-> "mount", page |-> 0, size |-> 8]

\* A re-render after the state setters of one handler ran, followed by the
\* clamp effect on the re-rendered pageCount.
Commit(l, ld, s, sev, key, pg, size) ==
  /\ list' = l
  /\ loading' = ld
  /\ search' = s
  /\ severityFilter' = sev
  /\ sortBy' = key
  /\ itemsPerPage' = size
  /\ page' = Clamp(pg, PageCountOf(Len(SortedOf(FilteredOf(l, s, sev), key)), size))

pipeVars == <<pIn, pFiltered, pSorted, pAgain, pStage>>

dashVars == <<dash_cattle, dash_diagnoses, dash_loading, dash_cancelled,
              dash_reqCattle, dash_reqDiag, dash_settled>>
detVars == <<det_diagnosis, det_loading, det_mounted, det_req, det_id, det_stale>>
crVars == <<cr_list, cr_unmounted, cr_req>>
ndVars == <<nd_cattleOptions, nd_unmounted, nd_req, nd_files, nd_selected, nd_alert>>
loaderVars == <<dashVars, detVars, crVars, ndVars>>

authVars == <<auth_user, auth_loading, auth_authenticating, stored, header, boot, lgn, reg,
              rfr, lay_authenticated, reloading, sent, cleared, auth_alert>>

mutVars == <<cr_showModal, cr_form, cr_submit, cr_delete, cr_alert,
             det_showReview, rv_saving, rv_req, rv_out>>

\* Everything outside the history view
notHistVars == <<pipeVars, loaderVars, authVars, mutVars>>

viewVars == <<list, loading, search, severityFilter, sortBy, page, itemsPerPage>>

\* The bodies a fulfilled GET /api/diagnosis/ may carry: an array of records,
\* or something that is not an array.
Bodies == {Fulfilled(TRUE, d) : d \in Responses} \cup {Fulfilled(FALSE, <<>>)}

\* load(), after the await, when the request is fulfilled:
\*   if (!mounted) return; setList(Array.isArray(res.data) ? res.data : []);
\*   finally { if (mounted) setLoading(false); }
LoadThen_Unguarded(body) ==
  Commit(IF body.isArray THEN body.data ELSE <<>>, FALSE,
         search, severityFilter, sortBy, page, itemsPerPage)
LoadThen(body) ==
  IF mounted
    THEN Commit(IF body.isArray THEN body.data ELSE <<>>, FALSE,
                search, severityFilter, sortBy, page, itemsPerPage)
    ELSE UNCHANGED viewVars

\* load(), after the await, when the request is rejected:
\*   catch { if (mounted) setList([]); } finally { if (mounted) setLoading(false); }
LoadCatch_StaysLoading ==
  IF mounted
    THEN Commit(<<>>, loading, search, severityFilter, sortBy, page, itemsPerPage)
    ELSE UNCHANGED viewVars
LoadCatch ==
  IF mounted
    THEN Commit(<<>>, FALSE, search, severityFilter, sortBy, page, itemsPerPage)
    ELSE UNCHANGED viewVars

LoadFulfilled ==
  /\ req.status = "pending"
  /\ \E body \in Bodies :
       /\ req' = Fulfilled(body.isArray, <<>>)
       /\ LoadThen(body)
  /\ out' = NoOutput
  /\ last' = Step("loadFulfilled")
  /\ UNCHANGED <<mounted, gets, notHistVars>>

LoadRejected ==
  /\ req.status = "pending"
  /\ req' = Rejected
  /\ LoadCatch
  /\ out' = NoOutput
  /\ last' = Step("loadRejected")
  /\ UNCHANGED <<mounted, gets, notHistVars>>

\* The cleanup of the load effect: mounted = false
Unmount ==
  /\ mounted
  /\ mounted' = FALSE
  /\ out' = NoOutput
  /\ last' = Step("unmount")
  /\ UNCHANGED <<viewVars, req, gets, notHistVars>>

\* onChange of the search box: setSearch(e.target.value); setPage(0)
SetSearch ==
  /\ mounted
  /\ \E v \in SearchInputs :
       /\ v # search
       /\ Commit(list, loading, v, severityFilter, sortBy, 0, itemsPerPage)
  /\ out' = NoOutput
  /\ last' = Step("setSearch")
  /\ UNCHANGED <<mounted, req, gets, notHistVars>>

\* onChange of the severity select: setSeverityFilter(e.target.value); setPage(0)
SetSeverityFilter ==
  /\ mounted
  /\ \E v \in SeverityOptions :
       /\ v # severityFilter
       /\ Commit(list, loading, search, v, sortBy, 0, itemsPerPage)
  /\ out' = NoOutput
  /\ last' = Step("setSeverityFilter")
  /\ UNCHANGED <<mounted, req, gets, notHistVars>>

\* onChange of the sort select: setSortBy(e.target.value); setPage(0)
SetSortBy ==
  /\ mounted
  /\ \E v \in SortKeys :
       /\ v # sortBy
       /\ Commit(list, loading, search, severityFilter, v, 0, itemsPerPage)
  /\ out' = NoOutput
  /\ last' = Step("setSortBy")
  /\ UNCHANGED <<mounted, req, gets, notHistVars>>

\* onChange of the page-size select: setItemsPerPage(Number(e.target.value)); setPage(0)
SetItemsPerPage_KeepsPage ==
  /\ mounted
  /\ \E n \in PageSizes :
       /\ n # itemsPerPage
       /\ Commit(list, loading, search, severityFilter, sortBy, page, n)
  /\ out' = NoOutput
  /\ last' = Step("setItemsPerPage")
  /\ UNCHANGED <<mounted, req, gets, notHistVars>>
SetItemsPerPage ==
  /\ mounted
  /\ \E n \in PageSizes :
       /\ n # itemsPerPage
       /\ Commit(list, loading, search, severityFilter, sortBy, 0, n)
  /\ out' = NoOutput
  /\ last' = Step("setItemsPerPage")
  /\ UNCHANGED <<mounted, req, gets, notHistVars>>

\* Prev (disabled when page <= 0): setPage(p => Math.max(0, p - 1))
PrevPage ==
  /\ mounted
  /\ ~(page <= 0)
  /\ Commit(list, loading, search, severityFilter, sortBy, Max(0, page - 1), itemsPerPage)
  /\ out' = NoOutput
  /\ last' = Step("prevPage")
  /\ UNCHANGED <<mounted, req, gets, notHistVars>>

\* Next (disabled when page >= pageCount - 1):
\*   setPage(p => Math.min(pageCount - 1, p + 1))
NextPage ==
  /\ mounted
  /\ LET pageCount == PageCount
     IN /\ ~(page >= pageCount - 1)
        /\ Commit(list, loading, search, severityFilter, sortBy,
                  Min(pageCount - 1, page + 1), itemsPerPage)
  /\ out' = NoOutput
  /\ last' = Step("nextPage")
  /\ UNCHANGED <<mounted, req, gets, notHistVars>>

\* The numeric buttons shown: indices Math.max(0, page - 3) up to, not
\* including, Math.min(pageCount, page + 4)
PageButtons ==
  LET pageCount == PageCount
  IN {p \in 0..(pageCount - 1) : Max(0, page - 3) <= p /\ p < Min(pageCount, page + 4)}

\* A numeric button: setPage(p)
GoToPage ==
  /\ mounted
  /\ \E p \in PageButtons :
       Commit(list, loading, search, severityFilter, sortBy, p, itemsPerPage)
  /\ out' = NoOutput
  /\ last' = Step("goToPage")
  /\ UNCHANGED <<mounted, req, gets, notHistVars>>

\* The array exportCsv maps into rows
ExportInput_VisibleOnly == Visible
ExportInput == Sorted

\* exportCsv: alert when there are no rows, else a download of the CSV text
ExportOutput_AlwaysDownloads == DownloadOutput(CsvLines(ExportRows(ExportInput)))
ExportOutput ==
  LET rows == ExportRows(ExportInput)
  IN IF Len(rows) = 0 THEN AlertOutput(STR_NoRows)
     ELSE DownloadOutput(CsvLines(rows))

ExportCsv ==
  /\ mounted
  /\ out' = ExportOutput
  /\ last' = Step("exportCsv")
  /\ UNCHANGED <<viewVars, mounted, req, gets, notHistVars>>

NextHistory ==
  \/ LoadFulfilled
  \/ LoadRejected
  \/ Unmount
  \/ SetSearch
  \/ SetSeverityFilter
  \/ SetSortBy
  \/ SetItemsPerPage
  \/ PrevPage
  \/ NextPage
  \/ GoToPage
  \/ ExportCsv

\* ------------------------------------------------- the export on free text
\* Characters a free-text field may hold: a letter, a double quote, a comma
\* and a line break.
CsvChars == {"a", "\"", ",", "\n"}
CsvTexts == SeqsUpTo(CsvChars, MaxField)

\* A diagnosis whose name, disease, severity, submitter, review status and
\* reviewer are free text.
CsvRecord(t, u) ==
  [DiagnosisRecord(NoCattle, t, NoneV, StrV(u), NoneV, <<>>, 900, t, 2, u, StrV(t))
     EXCEPT !.submitted_by = u]
CsvRecordAlt(t) ==
  DiagnosisRecord(CattleObj(<<>>, t), <<>>, ObjV(t), NoneV, NoneV, <<>>, 0, <<>>, NoValue, <<>>, ObjV(t))

\* The arrays GET /api/diagnosis/ may have returned to a view that exports.
CsvResponses ==
  {WithIds(<<CsvRecord(t, u)>>) : t, u \in CsvTexts}
    \cup {WithIds(<<CsvRecordAlt(t), CsvRecord(u, t)>>) : t, u \in CsvTexts}

\* A mounted history view whose load was fulfilled with a free-text response.
InitCsvView ==
  /\ list \in CsvResponses
  /\ loading = FALSE
  /\ search = <<>>
  /\ severityFilter = STR_all
  /\ sortBy = "newest"
  /\ page = 0
  /\ itemsPerPage = 8
  /\ mounted = TRUE
  /\ req = Fulfilled(TRUE, <<>>)
  /\ gets = 1
  /\ out = NoOutput
  /\ last = [op |-> "loadFulfilled", page |-> 0, size |-> 8]

\* ------------------------------------------------- the pipeline's functions
PipelineInputs ==
  [list : ShortLists, search : SearchInputs, severity : SeverityOptions, key : SortKeys]

NoPipelineInput == [list |-> <<>>, search |-> <<>>, severity |-> STR_all, key |-> "newest"]

IdlePipeline ==
  /\ pIn = NoPipelineInput
  /\ pFiltered = <<>>
  /\ pSorted = <<>>
  /\ pAgain = <<>>
  /\ pStage = "idle"

InitPipeline ==
  /\ pIn \in PipelineInputs
  /\ pFiltered = <<>>
  /\ pSorted = <<>>
  /\ pAgain = <<>>
  /\ pStage = "input"

ApplyFilter ==
  /\ pStage = "input"
  /\ pFiltered' = FilteredOf(pIn.list, pIn.search, pIn.severity)
  /\ pStage' = "filtered"
  /\ UNCHANGED <<pIn, pSorted, pAgain, histVars, loaderVars, authVars, mutVars>>

ApplySort ==
  /\ pStage = "filtered"
  /\ pSorted' = SortedOf(pFiltered, pIn.key)
  /\ pStage' = "sorted"
  /\ UNCHANGED <<pIn, pFiltered, pAgain, histVars, loaderVars, authVars, mutVars>>

\* The same filter on a list that is already its result
ApplyFilterAgain ==
  /\ pStage = "filtered"
  /\ pAgain' = FilteredOf(pFiltered, pIn.search, pIn.severity)
  /\ pStage' = "refiltered"
  /\ UNCHANGED <<pIn, pFiltered, pSorted, histVars, loaderVars, authVars, mutVars>>

NextPipeline ==
  \/ ApplyFilter
  \/ ApplySort
  \/ ApplyFilterAgain

\* ------------------------------------------- the other data-loading effects
STR_Daisy == <<"D","a","i","s","y">>
STR_Angus == <<"A","n","g","u","s">>

CattleRecord(id, tag, name, breed) == [id |-> id, tag_number |-> tag, name |-> name, breed |-> breed]

\* The arrays GET /api/cattle/ may return.
CattleLists ==
  { <<>>,
    <<CattleRecord(1, STR_T1, STR_Bossy, STR_Angus)>>,
    <<CattleRecord(1, STR_T1, STR_Bossy, STR_Angus), CattleRecord(2, STR_T2, STR_Daisy, STR_Angus)>> }

\* The arrays GET /api/diagnosis/ may return to the dashboard (every record
\* carries a creation timestamp).
\* Their cattle references name the cattle of CattleLists, as an id or as
\* a nested object carrying its id: an older low before a newer high for
\* cattle 1; an older high, a newer medium for cattle 2 and a diagnosis
\* without severity for cattle 1.
DiagnosisOf(cattle, r, t) == [r EXCEPT !.cattle = cattle, !.created_at = t]
DashDiagnosisLists ==
  { <<>>,
    WithIds(<<DiagnosisOf(CattleId(1), RecordPool[2], 1), DiagnosisOf(CattleId(1), RecordPool[1], 2)>>),
    WithIds(<<DiagnosisOf([CattleObj(STR_Daisy, STR_T2) EXCEPT !.num = 2], RecordPool[1], 1),
              DiagnosisOf(CattleId(2), RecordPool[5], 2),
              DiagnosisOf(CattleId(1), RecordPool[4], 2)>>) }

\* The record GET /api/diagnosis/{id}/ may return.
DetailRecords == {[RecordPool[1] EXCEPT !.id = 1], [RecordPool[2] EXCEPT !.id = 1]}

\* dRes.data.sort((a, b) => new Date(b.created_at) - new Date(a.created_at))
DashSort(d) == SortedOf(d, "newest")

\* Dashboard, "Health status distribution":
\*   diagnoses.forEach(d => { if (!d.cattle) return;
\*     const cid = d.cattle.id || d.cattle;
\*     if (!latestByCattle[cid]) latestByCattle[cid] = d; })
\* The key of a diagnosis in latestByCattle; 0 for one that is skipped or
\* whose key is no cattle id.
CattleKey(d) == IF d.cattle.k = "none" THEN 0 ELSE d.cattle.num

\* latestByCattle[id]: the first diagnosis of the list with that key, <<>> if none
LatestByCattle_LastWins(diagnoses, id) ==
  LET at == {i \in 1..Len(diagnoses) : CattleKey(diagnoses[i]) = id}
  IN IF id = 0 \/ at = {} THEN <<>>
     ELSE <<diagnoses[CHOOSE i \in at : \A j \in at : j <= i]>>
LatestByCattle(diagnoses, id) ==
  LET at == {i \in 1..Len(diagnoses) : CattleKey(diagnoses[i]) = id}
  IN IF id = 0 \/ at = {} THEN <<>>
     ELSE <<diagnoses[CHOOSE i \in at : \A j \in at : i <= j]>>

\* The counter the body of cattle.forEach increments for c
HealthOf(c, diagnoses) ==
  LET latest == LatestByCattle(diagnoses, c.id)
  IN IF latest = <<>> THEN "healthy"
     ELSE IF latest[1].severity = STR_high THEN "critical"
     ELSE IF latest[1].severity = STR_medium THEN "underTreatment"
     ELSE "healthy"

\* healthy, underTreatment and critical after cattle.forEach
HealthCount(status) ==
  Cardinality({i \in 1..Len(dash_cattle) : HealthOf(dash_cattle[i], dash_diagnoses) = status})

InitLoaders ==
  /\ dash_cattle = <<>>
  /\ dash_diagnoses = <<>>
  /\ dash_loading = TRUE
  /\ dash_cancelled = FALSE
  /\ dash_reqCattle = Pending
  /\ dash_reqDiag = Pending
  /\ dash_settled = FALSE
  /\ det_diagnosis = <<>>
  /\ det_loading = TRUE
  /\ det_mounted = TRUE
  /\ det_req = Pending
  /\ det_id = 1
  /\ det_stale = {}
  /\ cr_list = <<>>
  /\ cr_unmounted = FALSE
  /\ cr_req = Pending
  /\ nd_cattleOptions = <<>>
  /\ nd_unmounted = FALSE
  /\ nd_req = Pending
  /\ nd_files = <<>>
  /\ nd_selected = <<>>
  /\ nd_alert = FALSE

\* Dashboard load(), after `await Promise.all([...])` fulfils:
\*   if (cancelled) return; setCattle(...); setDiagnoses(...sort...);
\*   finally { if (!cancelled) setLoading(false); }
DashThen(c, d) ==
  IF dash_cancelled
    THEN UNCHANGED <<dash_cattle, dash_diagnoses, dash_loading>>
    ELSE /\ dash_cattle' = (IF c.isArray THEN c.data ELSE <<>>)
         /\ dash_diagnoses' = (IF d.isArray THEN DashSort(d.data) ELSE <<>>)
         /\ dash_loading' = FALSE

\* Dashboard load(), when Promise.all rejects:
\*   catch { setCattle([]); setDiagnoses([]); } finally { if (!cancelled) setLoading(false); }
DashCatch ==
  /\ dash_cattle' = <<>>
  /\ dash_diagnoses' = <<>>
  /\ dash_loading' = (IF dash_cancelled THEN dash_loading ELSE FALSE)

\* Promise.all fulfils once both requests have, and rejects with the first
\* rejection; what arrives after it has settled is dropped.
DashSettle_EachOnItsOwn(c, d) ==
  IF dash_settled \/ c.status = "pending" \/ d.status = "pending"
    THEN UNCHANGED <<dash_cattle, dash_diagnoses, dash_loading, dash_settled>>
    ELSE /\ dash_cattle' = (IF c.isArray THEN c.data ELSE <<>>)
         /\ dash_diagnoses' = (IF d.isArray THEN DashSort(d.data) ELSE <<>>)
         /\ dash_loading' = FALSE
         /\ dash_settled' = TRUE
DashSettle(c, d) ==
  IF dash_settled THEN UNCHANGED <<dash_cattle, dash_diagnoses, dash_loading, dash_settled>>
  ELSE IF c.status = "rejected" \/ d.status = "rejected"
    THEN DashCatch /\ dash_settled' = TRUE
  ELSE IF c.status = "fulfilled" /\ d.status = "fulfilled"
    THEN DashThen(c, d) /\ dash_settled' = TRUE
  ELSE UNCHANGED <<dash_cattle, dash_diagnoses, dash_loading, dash_settled>>

DashCattleResponse ==
  /\ dash_reqCattle.status = "pending"
  /\ \E r \in {Fulfilled(TRUE, c) : c \in CattleLists} \cup {Fulfilled(FALSE, <<>>), Rejected} :
       /\ dash_reqCattle' = r
       /\ DashSettle(r, dash_reqDiag)
  /\ UNCHANGED <<dash_cancelled, dash_reqDiag, detVars, crVars, ndVars, histVars, pipeVars, authVars, mutVars>>

DashDiagnosisResponse ==
  /\ dash_reqDiag.status = "pending"
  /\ \E r \in {Fulfilled(TRUE, d) : d \in DashDiagnosisLists} \cup {Fulfilled(FALSE, <<>>), Rejected} :
       /\ dash_reqDiag' = r
       /\ DashSettle(dash_reqCattle, r)
  /\ UNCHANGED <<dash_cancelled, dash_reqCattle, detVars, crVars, ndVars, histVars, pipeVars, authVars, mutVars>>

\* The cleanup of the Dashboard load effect: cancelled = true
DashUnmount ==
  /\ ~dash_cancelled
  /\ dash_cancelled' = TRUE
  /\ UNCHANGED <<dash_cattle, dash_diagnoses, dash_loading, dash_reqCattle, dash_reqDiag,
                 dash_settled, detVars, crVars, ndVars, histVars, pipeVars, authVars, mutVars>>

\* DiagnosisDetail fetchDiag(), request fulfilled:
\*   if (!mounted) return; setDiagnosis(res.data); finally { if (mounted) setLoading(false); }
DetailFulfilled ==
  /\ det_req.status = "pending"
  /\ \E d \in {[r EXCEPT !.id = det_id] : r \in DetailRecords} :
       /\ det_req' = Fulfilled(FALSE, <<d>>)
       /\ IF det_mounted
            THEN det_diagnosis' = <<d>> /\ det_loading' = FALSE
            ELSE UNCHANGED <<det_diagnosis, det_loading>>
  /\ UNCHANGED <<det_mounted, det_id, det_stale, dashVars, crVars, ndVars, histVars, pipeVars, authVars, mutVars>>

\* DiagnosisDetail fetchDiag(), request rejected:
\*   catch { console.error(err); } finally { if (mounted) setLoading(false); }
DetailRejected ==
  /\ det_req.status = "pending"
  /\ det_req' = Rejected
  /\ det_loading' = (IF det_mounted THEN FALSE ELSE det_loading)
  /\ UNCHANGED <<det_diagnosis, det_mounted, det_id, det_stale, dashVars, crVars, ndVars, histVars,
                 pipeVars, authVars, mutVars>>

\* The cleanup of the DiagnosisDetail fetch effect: mounted = false
DetailUnmount ==
  /\ det_mounted
  /\ det_mounted' = FALSE
  /\ UNCHANGED <<det_diagnosis, det_loading, det_req, det_id, det_stale, dashVars, crVars, ndVars,
                 histVars, pipeVars, authVars, mutVars>>

\* The diagnosis ids a route /diagnosis/:id may name.
RouteIds == {1, 2}

\* The route changes to another id while DiagnosisDetail stays mounted: the
\* cleanup of the effect's previous run sets its `mounted` to false, so its
\* request, if still in flight, is now stale; the new run starts with
\* mounted = true, setLoading(true) and GET /api/diagnosis/{id}/.
DetailRouteChange ==
  /\ det_mounted
  /\ \E n \in RouteIds \ {det_id} : det_id' = n
  /\ det_stale' = (IF det_req.status = "pending" THEN det_stale \cup {det_id} ELSE det_stale)
  /\ det_req' = Pending
  /\ det_loading' = TRUE
  /\ UNCHANGED <<det_diagnosis, det_mounted, dashVars, crVars, ndVars, histVars, pipeVars,
                 authVars, mutVars>>

\* A request of an earlier run settles.  Fulfilled: `if (!mounted) return;`
\* skips setDiagnosis; rejected: console.error(err); and in both cases
\* finally `if (mounted) setLoading(false)` does nothing.
DetailStaleSettled ==
  /\ \E n \in det_stale : det_stale' = det_stale \ {n}
  /\ UNCHANGED <<det_diagnosis, det_loading, det_mounted, det_req, det_id, dashVars, crVars,
                 ndVars, histVars, pipeVars, authVars, mutVars>>

NextDetail ==
  \/ DetailFulfilled
  \/ DetailRejected
  \/ DetailUnmount
  \/ DetailRouteChange
  \/ DetailStaleSettled

\* CattleRecords loadCattle(), request fulfilled:
\*   setList(Array.isArray(res.data) ? res.data : [])
CattleLoadFulfilled ==
  /\ cr_req.status = "pending"
  /\ \E r \in {Fulfilled(TRUE, c) : c \in CattleLists} \cup {Fulfilled(FALSE, <<>>)} :
       /\ cr_req' = r
       /\ cr_list' = (IF r.isArray THEN r.data ELSE <<>>)
  /\ UNCHANGED <<cr_unmounted, dashVars, detVars, ndVars, histVars, pipeVars, authVars, mutVars>>

\* CattleRecords loadCattle(), request rejected: catch { console.error(e); }
CattleLoadRejected ==
  /\ cr_req.status = "pending"
  /\ cr_req' = Rejected
  /\ UNCHANGED <<cr_list, cr_unmounted, dashVars, detVars, ndVars, histVars, pipeVars, authVars, mutVars>>

\* CattleRecords leaves the page (its load effect has no cleanup).
CattleUnmount ==
  /\ ~cr_unmounted
  /\ cr_unmounted' = TRUE
  /\ UNCHANGED <<cr_list, cr_req, dashVars, detVars, ndVars, histVars, pipeVars, authVars, mutVars>>

\* NewDiagnosis loadCattle(), request fulfilled: setCattleOptions(res.data)
NewDiagLoadFulfilled ==
  /\ nd_req.status = "pending"
  /\ \E c \in CattleLists :
       /\ nd_req' = Fulfilled(TRUE, c)
       /\ nd_cattleOptions' = c
  /\ UNCHANGED <<nd_unmounted, nd_files, nd_selected, nd_alert, dashVars, detVars, crVars,
                 histVars, pipeVars, authVars, mutVars>>

\* NewDiagnosis loadCattle(), request rejected: catch { console.error(e); }
NewDiagLoadRejected ==
  /\ nd_req.status = "pending"
  /\ nd_req' = Rejected
  /\ UNCHANGED <<nd_cattleOptions, nd_unmounted, nd_files, nd_selected, nd_alert, dashVars,
                 detVars, crVars, histVars, pipeVars, authVars, mutVars>>

\* NewDiagnosis leaves the page (its load effect has no cleanup).
NewDiagUnmount ==
  /\ ~nd_unmounted
  /\ nd_unmounted' = TRUE
  /\ UNCHANGED <<nd_cattleOptions, nd_req, nd_files, nd_selected, nd_alert, dashVars, detVars,
                 crVars, histVars, pipeVars, authVars, mutVars>>

\* ------------------------------------------- NewDiagnosis: the file list
\* One onFiles call receives at most this many files.
MaxBatch == 2
\* 10 * 1024 * 1024
MaxFileBytes == 10485760
\* .slice(0, 6)
MaxFiles == 6

TYPE_png == <<"i","m","a","g","e","/","p","n","g">>
TYPE_pdf == <<"a","p","p","l","i","c","a","t","i","o","n","/","p","d","f">>
TYPE_image == <<"i","m","a","g","e">>

\* The files a user may pick: a File's size and MIME type.
File(size, type) == [size |-> size, type |-> type]
Files ==
  { File(1, TYPE_png), File(MaxFileBytes, TYPE_png), File(MaxFileBytes + 1, TYPE_png),
    File(1, TYPE_pdf), File(1, TYPE_image) }
Batches == SeqsUpTo(Files, MaxBatch) \ {<<>>}

\* /^image\//.test(f.type)
IsImageType(type) == Len(type) >= 6 /\ SubSeq(type, 1, 6) = <<"i","m","a","g","e","/">>

\* f.size <= 10 * 1024 * 1024 && /^image\//.test(f.type)
FileOk(f) == f.size <= MaxFileBytes /\ IsImageType(f.type)

\* [...prev, ...selected].slice(0, 6)
AddFiles_NoLimit(prev, selected) == prev \o selected
AddFiles(prev, selected) == Slice(prev \o selected, 0, MaxFiles)

notFileVars == <<nd_cattleOptions, nd_unmounted, nd_req, dashVars, detVars, crVars, histVars,
                 pipeVars, authVars, mutVars>>

\* onFiles(e):
\*   const ok = selected.every(...); if (!ok) { alert(...); return; }
\*   setFiles(prev => [...prev, ...selected].slice(0, 6))
OnFiles ==
  /\ ~nd_unmounted
  /\ \E selected \in Batches :
       /\ nd_selected' = selected
       /\ IF \A i \in 1..Len(selected) : FileOk(selected[i])
            THEN nd_files' = AddFiles(nd_files, selected) /\ nd_alert' = FALSE
            ELSE nd_alert' = TRUE /\ UNCHANGED nd_files
  /\ UNCHANGED notFileVars

\* removeFile(idx): setFiles(files.filter((_, i) => i !== idx))
RemoveFile ==
  /\ ~nd_unmounted
  /\ \E idx \in 1..Len(nd_files) :
       nd_files' = SubSeq(nd_files, 1, idx - 1) \o SubSeq(nd_files, idx + 1, Len(nd_files))
  /\ nd_selected' = <<>>
  /\ nd_alert' = FALSE
  /\ UNCHANGED notFileVars

\* Reset: setSymptoms(""); setFiles([]); setSelectedCattle("")
ResetFiles ==
  /\ ~nd_unmounted
  /\ nd_files' = <<>>
  /\ nd_selected' = <<>>
  /\ nd_alert' = FALSE
  /\ UNCHANGED notFileVars

NextFiles ==
  \/ OnFiles
  \/ RemoveFile
  \/ ResetFiles

NextLoaders ==
  \/ DashCattleResponse
  \/ DashDiagnosisResponse
  \/ DashUnmount
  \/ DetailFulfilled
  \/ DetailRejected
  \/ DetailUnmount
  \/ CattleLoadFulfilled
  \/ CattleLoadRejected
  \/ CattleUnmount
  \/ NewDiagLoadFulfilled
  \/ NewDiagLoadRejected
  \/ NewDiagUnmount

\* ---------------------------------- AuthProvider, the HTTP client and Layout
NoToken == ""
NoUser == ""
\* The access tokens the backend issues and the profile GET /api/auth/me/
\* returns for each.
Tokens == {"tA", "tB"}
ProfileOf(t) == IF t = "tA" THEN "alice" ELSE "bob"

Session == [user |-> auth_user, stored |-> stored, header |-> header]
NoCall == [stage |-> "idle", carried |-> NoToken, stale |-> FALSE]
NoLogin ==
  [stage |-> "idle", carried |-> NoToken, stale |-> FALSE, clean |-> TRUE,
   before |-> [user |-> NoUser, stored |-> NoToken, header |-> NoToken]]
InFlight(call) == call.stage \in {"posting", "fetching"}
NoCallInFlight == ~InFlight(lgn) /\ ~InFlight(reg) /\ ~InFlight(rfr)
NoRequest == [kind |-> "none", carried |-> NoToken, persisted |-> NoToken]

\* The request interceptor on top of the default headers: the Authorization
\* header a request sent now carries ("" when it carries none).
\*   const token = localStorage.getItem("access_token");
\*   if (token) cfg.headers.Authorization = `Bearer ${token}`;
Carried == IF stored # NoToken THEN stored ELSE header

\* A page that has just been loaded, with any of `tokens` in localStorage;
\* AuthProvider and Layout have rendered, their effects have not run yet.
InitSession(tokens) ==
  /\ auth_user = NoUser
  /\ auth_loading = TRUE
  /\ auth_authenticating = FALSE
  /\ stored \in tokens
  /\ header = NoToken
  /\ boot = [stage |-> "start", carried |-> NoToken]
  /\ lgn = NoLogin
  /\ reg = NoCall
  /\ rfr = NoCall
  /\ lay_authenticated = FALSE
  /\ reloading = FALSE
  /\ sent = NoRequest
  /\ cleared = FALSE
  /\ auth_alert = FALSE

\* A step that is not login()'s own: a login() in flight no longer runs alone
\* (its record of the session before it is dropped), one that has ended is
\* forgotten.
Other ==
  lgn' = IF InFlight(lgn) THEN [NoLogin EXCEPT !.stage = lgn.stage, !.carried = lgn.carried,
                                               !.stale = lgn.stale, !.clean = FALSE]
         ELSE NoLogin

notAuthVars == <<histVars, pipeVars, loaderVars, mutVars>>

\* The bootstrap effect up to its await (or to its end, without a token):
\*   setLoading(true); token = localStorage.getItem(TOKEN_KEY);
\*   if (token) { setAuthToken(token); await fetchProfile() ... }
\*   else { setAuthToken(null); setUser(null) }  finally setLoading(false)
\* Layout's effect runs in the same commit: setAuthenticated(!!token).
BootstrapStart ==
  /\ boot.stage = "start"
  /\ IF stored # NoToken
       THEN /\ header' = stored
            /\ boot' = [stage |-> "fetching", carried |-> stored]
            /\ UNCHANGED <<auth_user, auth_loading>>
       ELSE /\ header' = NoToken
            /\ boot' = [stage |-> "noToken", carried |-> NoToken]
            /\ auth_user' = NoUser
            /\ auth_loading' = FALSE
  /\ lay_authenticated' = (stored # NoToken)
  /\ auth_alert' = FALSE
  /\ sent' = NoRequest
  /\ Other
  /\ UNCHANGED <<auth_authenticating, stored, reg, rfr, reloading, cleared, notAuthVars>>

\* The bootstrap effect when fetchProfile() fulfils:
\*   if (mounted) setUser(profile); finally { if (mounted) setLoading(false) }
BootstrapFulfilled_StaysLoading ==
  /\ boot.stage = "fetching"
  /\ boot' = [boot EXCEPT !.stage = "fulfilled"]
  /\ auth_user' = ProfileOf(boot.carried)
  /\ auth_alert' = FALSE
  /\ sent' = NoRequest
  /\ Other
  /\ UNCHANGED <<auth_loading, auth_authenticating, stored, header, reg, rfr, lay_authenticated,
                 reloading, cleared, notAuthVars>>
BootstrapFulfilled ==
  /\ boot.stage = "fetching"
  /\ boot' = [boot EXCEPT !.stage = "fulfilled"]
  /\ auth_user' = ProfileOf(boot.carried)
  /\ auth_loading' = FALSE
  /\ auth_alert' = FALSE
  /\ sent' = NoRequest
  /\ Other
  /\ UNCHANGED <<auth_authenticating, stored, header, reg, rfr, lay_authenticated, reloading,
                 cleared, notAuthVars>>

\* The bootstrap effect when fetchProfile() rejects:
\*   setAuthToken(null); localStorage.removeItem(TOKEN_KEY); setUser(null)
BootstrapCatch_KeepsToken == auth_user' = NoUser /\ UNCHANGED <<stored, header>>
BootstrapCatch == auth_user' = NoUser /\ stored' = NoToken /\ header' = NoToken

BootstrapRejected ==
  /\ boot.stage = "fetching"
  /\ boot' = [boot EXCEPT !.stage = "rejected"]
  /\ BootstrapCatch
  /\ auth_loading' = FALSE
  /\ auth_alert' = FALSE
  /\ sent' = NoRequest
  /\ Other
  /\ UNCHANGED <<auth_authenticating, reg, rfr, lay_authenticated, reloading, cleared,
                 notAuthVars>>

\* login(credentials) up to `await loginUser(credentials)`, called by the
\* submit handler of the Login form: setAuthenticating(true); POST login.
LoginCall == [stage |-> "posting", carried |-> NoToken, stale |-> FALSE, clean |-> TRUE, before |-> Session]

LoginStart ==
  /\ boot.stage # "start"
  /\ NoCallInFlight
  /\ lgn' = LoginCall
  /\ auth_authenticating' = TRUE
  /\ auth_alert' = FALSE
  /\ sent' = NoRequest
  /\ UNCHANGED <<auth_user, auth_loading, stored, header, boot, reg, rfr, lay_authenticated,
                 reloading, cleared, notAuthVars>>

\* The POST rejects, or loginUser finds no `access` in the response and
\* throws: login() rethrows, finally setAuthenticating(false); the form's
\* handler alerts.
LoginPostRejected ==
  /\ lgn.stage = "posting"
  /\ lgn' = [lgn EXCEPT !.stage = "threw"]
  /\ auth_authenticating' = FALSE
  /\ auth_alert' = TRUE
  /\ sent' = NoRequest
  /\ UNCHANGED <<auth_user, auth_loading, stored, header, boot, reg, rfr, lay_authenticated,
                 reloading, cleared, notAuthVars>>

\* The POST fulfils with an access token: loginUser calls setAuthToken(access);
\* login() calls localStorage.setItem(TOKEN_KEY, token), setAuthToken(token),
\* then sends GET /api/auth/me/ (fetchProfile), which carries the token.
LoginPostFulfilled ==
  /\ lgn.stage = "posting"
  /\ \E t \in Tokens :
       /\ stored' = t
       /\ header' = t
       /\ lgn' = [lgn EXCEPT !.stage = "fetching", !.carried = t]
  /\ cleared' = (cleared /\ lgn.stale)
  /\ auth_alert' = FALSE
  /\ sent' = NoRequest
  /\ UNCHANGED <<auth_user, auth_loading, auth_authenticating, boot, reg, rfr,
                 lay_authenticated, reloading, notAuthVars>>

\* fetchProfile() fulfils: setUser(profile); return profile; finally
\* setAuthenticating(false)
LoginProfileFulfilled ==
  /\ lgn.stage = "fetching"
  /\ lgn' = [lgn EXCEPT !.stage = "returned"]
  /\ auth_user' = ProfileOf(lgn.carried)
  /\ auth_authenticating' = FALSE
  /\ cleared' = (cleared /\ lgn.stale)
  /\ auth_alert' = FALSE
  /\ sent' = NoRequest
  /\ UNCHANGED <<auth_loading, stored, header, boot, reg, rfr, lay_authenticated, reloading,
                 notAuthVars>>

\* fetchProfile() rejects: catch (err) { throw err }, finally
\* setAuthenticating(false); the form's handler alerts.
LoginProfileRejected ==
  /\ lgn.stage = "fetching"
  /\ lgn' = [lgn EXCEPT !.stage = "threw"]
  /\ auth_authenticating' = FALSE
  /\ auth_alert' = TRUE
  /\ sent' = NoRequest
  /\ UNCHANGED <<auth_user, auth_loading, stored, header, boot, reg, rfr, lay_authenticated,
                 reloading, cleared, notAuthVars>>

\* register(payload) up to `await registerUser(payload)`, called by
\* Register.handleSubmit: setAuthenticating(true); POST register.
RegisterStart ==
  /\ boot.stage # "start"
  /\ NoCallInFlight
  /\ reg' = [stage |-> "posting", carried |-> NoToken, stale |-> FALSE]
  /\ auth_authenticating' = TRUE
  /\ auth_alert' = FALSE
  /\ sent' = NoRequest
  /\ Other
  /\ UNCHANGED <<auth_user, auth_loading, stored, header, boot, rfr, lay_authenticated,
                 reloading, cleared, notAuthVars>>

\* register() throws (the POST or its fetchProfile rejected): finally
\* setAuthenticating(false); Register.handleSubmit alerts.
RegisterRejected ==
  /\ InFlight(reg)
  /\ reg' = [reg EXCEPT !.stage = "threw"]
  /\ auth_authenticating' = FALSE
  /\ auth_alert' = TRUE
  /\ sent' = NoRequest
  /\ Other
  /\ UNCHANGED <<auth_user, auth_loading, stored, header, boot, rfr, lay_authenticated,
                 reloading, cleared, notAuthVars>>

\* The POST fulfils with a token in the response: localStorage.setItem,
\* setAuthToken(token), then GET /api/auth/me/ carrying it.
RegisterPostFulfilledToken ==
  /\ reg.stage = "posting"
  /\ \E t \in Tokens :
       /\ stored' = t
       /\ header' = t
       /\ reg' = [reg EXCEPT !.stage = "fetching", !.carried = t]
  /\ cleared' = (cleared /\ reg.stale)
  /\ auth_alert' = FALSE
  /\ sent' = NoRequest
  /\ Other
  /\ UNCHANGED <<auth_user, auth_loading, auth_authenticating, boot, rfr, lay_authenticated,
                 reloading, notAuthVars>>

\* register() returns (the response held no token, or its fetchProfile
\* fulfilled and setUser(profile) ran): finally setAuthenticating(false);
\* Register.handleSubmit goes on to `await auth.login(...)`.
RegisterReturned ==
  /\ InFlight(reg)
  /\ IF reg.stage = "fetching"
       THEN auth_user' = ProfileOf(reg.carried) /\ cleared' = (cleared /\ reg.stale)
       ELSE UNCHANGED <<auth_user, cleared>>
  /\ reg' = [reg EXCEPT !.stage = "returned"]
  /\ lgn' = [LoginCall EXCEPT !.before.user = auth_user']
  /\ auth_authenticating' = TRUE
  /\ auth_alert' = FALSE
  /\ sent' = NoRequest
  /\ UNCHANGED <<auth_loading, stored, header, boot, rfr, lay_authenticated, reloading,
                 notAuthVars>>

\* refreshProfile() up to `await fetchProfile()`
RefreshStart ==
  /\ boot.stage # "start"
  /\ NoCallInFlight
  /\ rfr' = [stage |-> "fetching", carried |-> Carried, stale |-> FALSE]
  /\ auth_alert' = FALSE
  /\ sent' = NoRequest
  /\ Other
  /\ UNCHANGED <<auth_user, auth_loading, auth_authenticating, stored, header, boot, reg,
                 lay_authenticated, reloading, cleared, notAuthVars>>

\* refreshProfile(): fetchProfile() fulfils (setUser(profile)) or rejects
\* (console.error, return null); the backend knows no profile without a token.
RefreshSettled ==
  /\ rfr.stage = "fetching"
  /\ rfr' = NoCall
  /\ \E ok \in {b \in BOOLEAN : b => rfr.carried # NoToken} :
       auth_user' = (IF ok THEN ProfileOf(rfr.carried) ELSE auth_user)
  /\ auth_alert' = FALSE
  /\ sent' = NoRequest
  /\ Other
  /\ UNCHANGED <<auth_loading, auth_authenticating, stored, header, boot, reg,
                 lay_authenticated, reloading, cleared, notAuthVars>>

\* logout(): doLogout() is setAuthToken(null); setAuthToken(null);
\* localStorage.removeItem(TOKEN_KEY); setUser(null)
Logout ==
  /\ boot.stage # "start"
  /\ stored' = NoToken
  /\ header' = NoToken
  /\ auth_user' = NoUser
  /\ cleared' = TRUE
  /\ lgn' = [lgn EXCEPT !.clean = FALSE, !.stale = InFlight(lgn)]
  /\ reg' = [reg EXCEPT !.stale = InFlight(reg)]
  /\ auth_alert' = FALSE
  /\ sent' = NoRequest
  /\ UNCHANGED <<auth_loading, auth_authenticating, boot, rfr, lay_authenticated, reloading,
                 notAuthVars>>

\* Layout's effect on a change of location:
\*   setAuthenticated(!!localStorage.getItem("access_token"))
LocationChange ==
  /\ boot.stage # "start"
  /\ lay_authenticated' = (stored # NoToken)
  /\ lay_authenticated' # lay_authenticated
  /\ auth_alert' = FALSE
  /\ sent' = NoRequest
  /\ Other
  /\ UNCHANGED <<auth_user, auth_loading, auth_authenticating, stored, header, boot, reg, rfr,
                 reloading, cleared, notAuthVars>>

\* Layout.handleLogout (the button shows while `authenticated`):
\*   localStorage.removeItem("access_token"); setAuthenticated(false);
\*   navigate("/"); window.location.reload()
\* reload() starts a navigation; the page and its scripts live on until the
\* browser replaces the document.
LayoutLogout ==
  /\ lay_authenticated
  /\ ~reloading
  /\ stored' = NoToken
  /\ lay_authenticated' = FALSE
  /\ reloading' = TRUE
  /\ auth_alert' = FALSE
  /\ sent' = NoRequest
  /\ Other
  /\ UNCHANGED <<auth_user, auth_loading, auth_authenticating, header, boot, reg, rfr,
                 cleared, notAuthVars>>

\* The browser replaces the document: every module and component starts
\* anew, requests in flight are dropped, localStorage stays.
PageReload ==
  /\ reloading
  /\ auth_user' = NoUser
  /\ auth_loading' = TRUE
  /\ auth_authenticating' = FALSE
  /\ header' = NoToken
  /\ boot' = [stage |-> "start", carried |-> NoToken]
  /\ lgn' = NoLogin
  /\ reg' = NoCall
  /\ rfr' = NoCall
  /\ lay_authenticated' = FALSE
  /\ reloading' = FALSE
  /\ cleared' = FALSE
  /\ auth_alert' = FALSE
  /\ sent' = NoRequest
  /\ UNCHANGED <<stored, notAuthVars>>

\* Any component sends a request through the client (api.get, api.post, ...).
SendRequest ==
  /\ boot.stage # "start"
  /\ sent' = [kind |-> "sent", carried |-> Carried, persisted |-> stored]
  /\ auth_alert' = FALSE
  /\ Other
  /\ UNCHANGED <<auth_user, auth_loading, auth_authenticating, stored, header, boot, reg, rfr,
                 lay_authenticated, reloading, cleared, notAuthVars>>

NextAuth ==
  \/ BootstrapStart
  \/ BootstrapFulfilled
  \/ BootstrapRejected
  \/ LoginStart
  \/ LoginPostRejected
  \/ LoginPostFulfilled
  \/ LoginProfileFulfilled
  \/ LoginProfileRejected
  \/ RegisterStart
  \/ RegisterRejected
  \/ RegisterPostFulfilledToken
  \/ RegisterReturned
  \/ RefreshStart
  \/ RefreshSettled
  \/ Logout
  \/ LocationChange
  \/ LayoutLogout
  \/ PageReload
  \/ SendRequest

\* ------------------------------------------- CattleRecords: create/update/delete
\* The list holds at most this many cattle (the backend numbers a new record
\* with the lowest free id).
MaxCattle == 3

NoMutation == [status |-> "idle", kind |-> "none", id |-> 0]
BlankForm == CattleRecord(0, <<>>, <<>>, <<>>)
NoReview == [alert |-> "", onSaved |-> FALSE]

\* CattleRecords and DiagnosisDetail as mounted: modals closed, nothing sent.
InitMutations ==
  /\ cr_showModal = FALSE
  /\ cr_form = BlankForm
  /\ cr_submit = NoMutation
  /\ cr_delete = NoMutation
  /\ cr_alert = FALSE
  /\ det_showReview = FALSE
  /\ rv_saving = FALSE
  /\ rv_req = Pending
  /\ rv_out = NoReview

notCattleVars == <<histVars, pipeVars, dashVars, detVars, ndVars, authVars,
                   det_showReview, rv_saving, rv_req, rv_out>>

Ids(l) == {l[i].id : i \in 1..Len(l)}
NewId(l) == CHOOSE n \in 1..(Len(l) + 1) : n \notin Ids(l) /\ \A m \in 1..(n - 1) : m \in Ids(l)

\* openModal(c): the Edit button of a row, or Add Cattle
OpenModal ==
  /\ \E c \in {cr_list[i] : i \in 1..Len(cr_list)} \cup {BlankForm} : cr_form' = c
  /\ cr_showModal' = TRUE
  /\ cr_alert' = FALSE
  /\ UNCHANGED <<cr_list, cr_unmounted, cr_req, cr_submit, cr_delete, notCattleVars>>

\* closeModal (Cancel)
CloseModal ==
  /\ cr_showModal
  /\ cr_showModal' = FALSE
  /\ cr_alert' = FALSE
  /\ UNCHANGED <<cr_list, cr_unmounted, cr_req, cr_form, cr_submit, cr_delete, notCattleVars>>

\* submitForm up to its await: PUT /api/cattle/{id}/ for a form with an id,
\* POST /api/cattle/ otherwise
SubmitForm ==
  /\ cr_showModal
  /\ cr_submit.status # "pending"
  /\ (cr_form.id = 0) => Len(cr_list) < MaxCattle
  /\ cr_submit' = [status |-> "pending", kind |-> IF cr_form.id # 0 THEN "put" ELSE "post",
                   id |-> cr_form.id]
  /\ cr_alert' = FALSE
  /\ UNCHANGED <<cr_list, cr_unmounted, cr_req, cr_showModal, cr_form, cr_delete, notCattleVars>>

\* submitForm, request fulfilled with the server's record:
\*   setList(prev => prev.map(c => (c.id === form.id ? res.data : c)))   (PUT)
\*   setList(prev => [res.data, ...prev])                                 (POST)
\*   closeModal()
SubmitThen(data) ==
  /\ cr_list' = IF cr_submit.kind = "put"
                  THEN [i \in 1..Len(cr_list) |->
                          IF cr_list[i].id = cr_submit.id THEN data ELSE cr_list[i]]
                  ELSE <<data>> \o cr_list
  /\ cr_showModal' = FALSE
  /\ cr_alert' = FALSE

SubmitFulfilled ==
  /\ cr_submit.status = "pending"
  /\ (cr_submit.kind = "post") => Len(cr_list) < MaxCattle
  /\ SubmitThen(CattleRecord(IF cr_submit.kind = "put" THEN cr_submit.id ELSE NewId(cr_list),
                             STR_T2, STR_Daisy, STR_Angus))
  /\ cr_submit' = [cr_submit EXCEPT !.status = "fulfilled"]
  /\ UNCHANGED <<cr_unmounted, cr_req, cr_form, cr_delete, notCattleVars>>

\* submitForm, request rejected:
\*   catch (e) { console.error(e); alert("Failed to save cattle record") }
SubmitCatch_EmptiesList == cr_alert' = TRUE /\ cr_list' = <<>> /\ UNCHANGED cr_showModal
SubmitCatch == cr_alert' = TRUE /\ UNCHANGED <<cr_list, cr_showModal>>

SubmitRejected ==
  /\ cr_submit.status = "pending"
  /\ SubmitCatch
  /\ cr_submit' = [cr_submit EXCEPT !.status = "rejected"]
  /\ UNCHANGED <<cr_unmounted, cr_req, cr_form, cr_delete, notCattleVars>>

\* deleteCattle(id) up to its await, the confirm() accepted:
\*   DELETE /api/cattle/{id}/
DeleteCattle ==
  /\ cr_delete.status # "pending"
  /\ \E id \in Ids(cr_list) : cr_delete' = [status |-> "pending", kind |-> "delete", id |-> id]
  /\ cr_alert' = FALSE
  /\ UNCHANGED <<cr_list, cr_unmounted, cr_req, cr_showModal, cr_form, cr_submit, notCattleVars>>

\* deleteCattle, request fulfilled: setList(prev => prev.filter(c => c.id !== id))
DeleteFulfilled ==
  /\ cr_delete.status = "pending"
  /\ cr_delete' = [cr_delete EXCEPT !.status = "fulfilled"]
  /\ LET Other_(c) == c.id # cr_delete.id IN cr_list' = SelectSeq(cr_list, Other_)
  /\ cr_alert' = FALSE
  /\ UNCHANGED <<cr_unmounted, cr_req, cr_showModal, cr_form, cr_submit, notCattleVars>>

\* deleteCattle, request rejected: catch (e) { console.error(e) }
DeleteRejected ==
  /\ cr_delete.status = "pending"
  /\ cr_delete' = [cr_delete EXCEPT !.status = "rejected"]
  /\ cr_alert' = FALSE
  /\ UNCHANGED <<cr_list, cr_unmounted, cr_req, cr_showModal, cr_form, cr_submit, notCattleVars>>

NextCattle ==
  \/ CattleLoadFulfilled
  \/ CattleLoadRejected
  \/ OpenModal
  \/ CloseModal
  \/ SubmitForm
  \/ SubmitFulfilled
  \/ SubmitRejected
  \/ DeleteCattle
  \/ DeleteFulfilled
  \/ DeleteRejected

\* -------------------------------------------------- App: protected routes
\* The routes App wraps in <RequireAuth>.
ProtectedRoutes == {"/dashboard", "/diagnosis/new", "/diagnosis/:id", "/cattle", "/history"}

\* RequireAuth as a function of the context value it reads:
\*   if (auth.loading) return null;
\*   if (!auth.user) return <Navigate to="/login" ... replace />;
\*   return children;
RequireAuth_IgnoresLoading(isLoading, user) == IF user = NoUser THEN "redirect" ELSE "children"
RequireAuth(isLoading, user) ==
  IF isLoading THEN "nothing"
  ELSE IF user = NoUser THEN "redirect"
  ELSE "children"

\* What the element of a route renders with the current context value.
RouteElement(path) ==
  IF path \in ProtectedRoutes THEN RequireAuth(auth_loading, auth_user) ELSE "children"

\* ---------------------------------------- DiagnosisDetail: the review modal
notReviewVars == <<histVars, pipeVars, dashVars, crVars, ndVars, authVars, det_id, det_stale,
                   cr_showModal, cr_form, cr_submit, cr_delete, cr_alert>>

\* The "Review & Approve" button renders for a profile whose role is "vet".
IsVet(u) == u = "alice"

\* A page whose bootstrap signed the vet in from a stored token.
SignedIn ==
  /\ auth_user = "alice"
  /\ auth_loading = FALSE
  /\ auth_authenticating = FALSE
  /\ stored = "tA"
  /\ header = "tA"
  /\ boot = [stage |-> "fulfilled", carried |-> "tA"]
  /\ lgn = NoLogin
  /\ reg = NoCall
  /\ rfr = NoCall
  /\ lay_authenticated = TRUE
  /\ reloading = FALSE
  /\ sent = NoRequest
  /\ cleared = FALSE
  /\ auth_alert = FALSE

\* The records POST /api/diagnosis/{id}/review/ may return.
ReviewedRecords ==
  {[d EXCEPT !.review_status = st] : d \in DetailRecords, st \in {STR_approved, STR_rejected}}

\* onClick of "Review & Approve" (rendered once the record is loaded)
OpenReview ==
  /\ det_mounted /\ ~det_loading /\ det_diagnosis # <<>>
  /\ IsVet(auth_user)
  /\ ~det_showReview
  /\ det_showReview' = TRUE
  /\ rv_out' = NoReview
  /\ UNCHANGED <<det_diagnosis, det_loading, det_mounted, det_req, rv_saving, rv_req, notReviewVars>>

\* onClose from Cancel (disabled while saving)
CloseReview ==
  /\ det_showReview /\ ~rv_saving
  /\ det_showReview' = FALSE
  /\ rv_out' = NoReview
  /\ UNCHANGED <<det_diagnosis, det_loading, det_mounted, det_req, rv_saving, rv_req, notReviewVars>>

\* submit() up to its await (the button is disabled while saving):
\*   setSaving(true); POST /api/diagnosis/{id}/review/
ReviewSubmit ==
  /\ det_mounted /\ det_showReview /\ ~rv_saving
  /\ rv_saving' = TRUE
  /\ rv_req' = Pending
  /\ rv_out' = NoReview
  /\ UNCHANGED <<det_diagnosis, det_loading, det_mounted, det_req, det_showReview, notReviewVars>>

\* submit(), request fulfilled:
\*   onSaved(res.data), which is setDiagnosis(updated); alert("Review saved.");
\*   onClose(), which is setShowReview(false); finally setSaving(false)
ReviewFulfilled ==
  /\ rv_saving /\ rv_req.status = "pending"
  /\ \E d \in ReviewedRecords :
       /\ rv_req' = Fulfilled(FALSE, <<d>>)
       /\ det_diagnosis' = <<d>>
  /\ det_showReview' = FALSE
  /\ rv_saving' = FALSE
  /\ rv_out' = [alert |-> "saved", onSaved |-> TRUE]
  /\ UNCHANGED <<det_loading, det_mounted, det_req, notReviewVars>>

\* submit(), request rejected:
\*   catch (err) { console.error(err); alert("Failed to save review. ...") }
ReviewCatch_ClosesModal ==
  /\ rv_out' = [alert |-> "failed", onSaved |-> FALSE]
  /\ det_showReview' = FALSE
  /\ UNCHANGED det_diagnosis
ReviewCatch ==
  /\ rv_out' = [alert |-> "failed", onSaved |-> FALSE]
  /\ UNCHANGED <<det_diagnosis, det_showReview>>

ReviewRejected ==
  /\ rv_saving /\ rv_req.status = "pending"
  /\ rv_req' = Rejected
  /\ ReviewCatch
  /\ rv_saving' = FALSE
  /\ UNCHANGED <<det_loading, det_mounted, det_req, notReviewVars>>

NextReview ==
  \/ DetailFulfilled
  \/ DetailRejected
  \/ DetailUnmount
  \/ OpenReview
  \/ CloseReview
  \/ ReviewSubmit
  \/ ReviewFulfilled
  \/ ReviewRejected

\* ---------------------------------------------------------- specifications
vars == <<histVars, pipeVars, loaderVars, authVars, mutVars>>

\* The history view, from mount to unmount.
Init == InitHistory /\ IdlePipeline /\ InitLoaders /\ InitSession({NoToken}) /\ InitMutations
Next == NextHistory
Spec == Init /\ [][Next]_vars

\* The pure functions of the list pipeline on drawn inputs.
InitP == InitHistory /\ InitPipeline /\ InitLoaders /\ InitSession({NoToken}) /\ InitMutations
SpecPipeline == InitP /\ [][NextPipeline]_vars

\* Dashboard, DiagnosisDetail, CattleRecords and NewDiagnosis, each from its
\* mount, with its load requests in flight, to its unmount.
InitL == InitHistory /\ IdlePipeline /\ InitLoaders /\ InitSession({NoToken}) /\ InitMutations
SpecLoaders == InitL /\ [][NextLoaders]_vars

\* The CSV export of a loaded history view holding free-text records.
InitC == InitCsvView /\ IdlePipeline /\ InitLoaders /\ InitSession({NoToken}) /\ InitMutations
NextCsv == ExportCsv
SpecCsv == InitC /\ [][NextCsv]_vars

\* AuthProvider, the HTTP client and Layout, from a page load on.
InitA == InitHistory /\ IdlePipeline /\ InitLoaders /\ InitSession({NoToken, "tA"}) /\ InitMutations
SpecAuth == InitA /\ [][NextAuth]_vars

\* DiagnosisDetail while its route id changes.
InitD == InitHistory /\ IdlePipeline /\ InitLoaders /\ InitSession({NoToken}) /\ InitMutations
SpecDetail == InitD /\ [][NextDetail]_vars

\* The two loading flags the claims on progress are about: the history view
\* from its mount and the session from the page load, each request settling
\* eventually (the effects run after the first render; a pending request
\* that is fulfilled or rejected is the premise of those claims).
InitV == InitHistory /\ IdlePipeline /\ InitLoaders /\ InitSession({NoToken, "tA"}) /\ InitMutations
NextLoading ==
  \/ LoadFulfilled
  \/ LoadRejected
  \/ Unmount
  \/ BootstrapStart
  \/ BootstrapFulfilled
  \/ BootstrapRejected
SpecLoading ==
  /\ InitV
  /\ [][NextLoading]_vars
  /\ WF_vars(LoadFulfilled \/ LoadRejected)
  /\ WF_vars(BootstrapStart)
  /\ WF_vars(BootstrapFulfilled \/ BootstrapRejected)

\* NewDiagnosis while the user selects and removes image files.
InitN == InitHistory /\ IdlePipeline /\ InitLoaders /\ InitSession({NoToken}) /\ InitMutations
SpecFiles == InitN /\ [][NextFiles]_vars

\* CattleRecords with its load and its create, update and delete requests.
InitM == InitHistory /\ IdlePipeline /\ InitLoaders /\ InitSession({NoToken}) /\ InitMutations
SpecCattle == InitM /\ [][NextCattle]_vars

\* DiagnosisDetail with its fetch and its review modal, opened by a vet.
InitR == InitHistory /\ IdlePipeline /\ InitLoaders /\ SignedIn /\ InitMutations
SpecReview == InitR /\ [][NextReview]_vars

\* ------------------------------------------------------------------ claims

\* C1: in every reachable state of the history view the page index satisfies
\* 0 <= page < pageCount, pageCount being computed from the current
\* filtered/sorted set and the current page size.
C1_PageInRange == 0 <= page /\ page < PageCount

\* C1 witness: the view stands on its last page, beyond the first, after Next.
C1_Witness == last.op = "nextPage" /\ page >= 1 /\ page = PageCount - 1

\* C2: once the history view is unmounted, no step (in particular the
\* request resolving, fulfilled or rejected) changes the list or loading.
C2_NoCommitAfterUnmount == [][(~mounted) => (list' = list /\ loading' = loading)]_vars

\* C2 witness: the view was unmounted with the request in flight, the request
\* then fulfilled with an array, and the list is still empty and loading true.
C2_Witness ==
  /\ ~mounted
  /\ last.op = "loadFulfilled"
  /\ req.status = "fulfilled" /\ req.isArray
  /\ list = <<>>
  /\ loading

C4_FailedLoad == (req.status = "rejected" \/ (req.status = "fulfilled" /\ ~req.isArray))
C4_FailureDegradesToEmpty ==
  (mounted /\ C4_FailedLoad) =>
    /\ list = <<>>
    /\ ~loading
    /\ gets = 1
    /\ (last.op \in {"loadRejected", "loadFulfilled"} => out.kind = "none")

\* C4 witness: the request was rejected while the view was mounted.
C4_Witness == mounted /\ req.status = "rejected" /\ last.op = "loadRejected"

\* C5: `filtered` holds exactly the records of the list, in list order, for
\* which (the query is blank, or the lower-cased display name or display
\* disease contains the trimmed lower-cased query) and (the severity filter is
\* "all" or equals the lower-cased severity); "bossy" matches "Bossy".
C5_Blank(s) == \A i \in 1..Len(s) : s[i] \in WhiteSpace
C5_Contains(s, q) ==
  \E i \in 0..(Len(s) - Len(q)) : SubSeq(s, i + 1, i + Len(q)) = q
C5_Keeps(r) ==
  /\ \/ C5_Blank(pIn.search)
     \/ C5_Contains(ToLowerCase(GetCattleName(r)), ToLowerCase(Trim(pIn.search)))
     \/ C5_Contains(ToLowerCase(GetTopDisease(r)), ToLowerCase(Trim(pIn.search)))
  /\ \/ pIn.severity = STR_all
     \/ pIn.severity = ToLowerCase(r.severity)
C5_Kept == {i \in 1..Len(pIn.list) : C5_Keeps(pIn.list[i])}
C5_FilterExact ==
  (pStage \in {"filtered", "sorted", "refiltered"}) =>
    /\ Len(pFiltered) = Cardinality(C5_Kept)
    /\ \A j \in 1..Len(pFiltered) :
         \E i \in C5_Kept :
           /\ Cardinality({k \in C5_Kept : k <= i}) = j
           /\ pFiltered[j] = pIn.list[i]
    /\ (C5_Blank(pIn.search) /\ pIn.severity = STR_all => pFiltered = pIn.list)
    /\ FilteredOf(<<RecordPool[1]>>, <<"b","o","s","s","y">>, STR_all) = <<RecordPool[1]>>

\* C5 witness: a non-blank query and a severity filter keep some records of the
\* list and drop others.
C5_Witness ==
  /\ pStage = "filtered"
  /\ ~C5_Blank(pIn.search)
  /\ pIn.severity # STR_all
  /\ Len(pFiltered) > 0
  /\ Len(pFiltered) < Len(pIn.list)

\* C6: for every sort key `sorted` is a permutation of `filtered` of equal
\* length, no adjacent pair is out of order under the key, and records with
\* equal keys keep their relative order from `filtered`.
C6_Key(key, r) ==
  IF key \in {"newest", "oldest"} THEN DateOf(r.created_at) ELSE ConfOf(r.confidence)
C6_Descending(key) == key \in {"newest", "confidence_desc"}
C6_InOrder(key, a, b) ==
  IF C6_Descending(key) THEN C6_Key(key, a) >= C6_Key(key, b)
  ELSE C6_Key(key, a) <= C6_Key(key, b)
C6_Position(r) == CHOOSE k \in 1..Len(pFiltered) : pFiltered[k] = r
C6_SortCorrect ==
  (pStage = "sorted") =>
    /\ Len(pSorted) = Len(pFiltered)
    /\ \A k \in 1..Len(pFiltered) :
         Cardinality({i \in 1..Len(pSorted) : pSorted[i] = pFiltered[k]}) = 1
    /\ \A i \in 1..(Len(pSorted) - 1) : C6_InOrder(pIn.key, pSorted[i], pSorted[i + 1])
    /\ \A i, j \in 1..Len(pSorted) :
         (i < j /\ C6_Key(pIn.key, pSorted[i]) = C6_Key(pIn.key, pSorted[j]))
           => C6_Position(pSorted[i]) < C6_Position(pSorted[j])
    /\ SortedOf(WithIds(<<RecordPool[1], RecordPool[2]>>), "confidence_desc")
         = WithIds(<<RecordPool[1], RecordPool[2]>>)

\* C6 witness: a sort that moved records and met two records with equal keys.
C6_Witness ==
  /\ pStage = "sorted"
  /\ pSorted # pFiltered
  /\ \E i, j \in 1..Len(pSorted) :
       i < j /\ C6_Key(pIn.key, pSorted[i]) = C6_Key(pIn.key, pSorted[j])

\* C7: for every page size p >= 1 and sorted set of length n the page count is
\* ceil(n/p), at least 1; the visible slice of page k is sorted[k*p : k*p+p];
\* and the slices of pages 0..pageCount-1, concatenated, are the sorted set.
RECURSIVE C7_Concat(_, _, _)
C7_Concat(s, k, p) ==
  IF k < 0 THEN <<>> ELSE C7_Concat(s, k - 1, p) \o VisibleOf(s, k, p)
C7_IsCeil(c, n, p) == c * p >= n /\ (c - 1) * p < n
C7_SliceAt(s, k, p) ==
  [i \in 1..Max(0, Min(p, Len(s) - k * p)) |-> s[k * p + i]]
C7_Paging(s, p) ==
  LET pc == PageCountOf(Len(s), p)
  IN /\ pc >= 1
     /\ (Len(s) > 0 => C7_IsCeil(pc, Len(s), p))
     /\ \A k \in 0..(pc - 1) : VisibleOf(s, k, p) = C7_SliceAt(s, k, p)
     /\ C7_Concat(s, pc - 1, p) = s
C7_PagesPartition ==
  LET s == Sorted
  IN /\ \A p \in PageSizes \cup 1..(Len(s) + 1) : C7_Paging(s, p)
     /\ Visible = C7_SliceAt(s, page, itemsPerPage)

\* C7 witness: a middle page of at least three.
C7_Witness == PageCount >= 3 /\ page = 1 /\ Len(Visible) = itemsPerPage

\* The case of C8: the last step raised the page size, and the page index
\* before it is at or beyond the new page count.
C8_Case ==
  /\ last.op = "setItemsPerPage"
  /\ itemsPerPage > last.size
  /\ last.page >= PageCount

\* C8 (as claimed): in that case the page index becomes the last valid page,
\* pageCount - 1.
C8_ResetsToLastPage == C8_Case => page = PageCount - 1

\* C8 (amended): in that case the page index becomes 0, the first page, which
\* is a valid page and never negative.
C8_ResetsToFirstPage == C8_Case => (page = 0 /\ page < PageCount)

\* C8 witness: the case, with more than one page left after the change.
C8_Witness == C8_Case /\ PageCount >= 2

\* C9: exportCsv writes one row per record of the full sorted/filtered set, in
\* sorted order, whatever the page index and page size: after the header, line
\* i is the row of the i-th sorted record (it starts with that record's id).
C9_IdPrefix(r) == <<"\"">> \o NumStr(r.id) \o <<"\"", ",">>
C9_ExportsWholeSortedSet ==
  (out.kind = "download") =>
    /\ Len(out.lines) = Len(Sorted) + 1
    /\ \A i \in 1..Len(Sorted) :
         SubSeq(out.lines[i + 1], 1, Len(C9_IdPrefix(Sorted[i]))) = C9_IdPrefix(Sorted[i])

\* C9 witness: an export from a later page, with records off the visible page
\* and records excluded by the filters.
C9_Witness ==
  /\ out.kind = "download"
  /\ page >= 1
  /\ Len(Visible) < Len(Sorted)
  /\ Len(Sorted) < Len(list)

\* C10: exportCsv on an empty filtered/sorted set produces no download, alerts
\* "No rows to export", and leaves the view state unchanged.
C10_EmptyExportIsNoOp ==
  [][(last'.op = "exportCsv" /\ Len(Sorted) = 0) =>
       /\ out'.kind = "alert"
       /\ out'.text = STR_NoRows
       /\ out'.lines = <<>>
       /\ UNCHANGED <<viewVars, mounted, req, gets>>]_vars

\* C10 witness: an export alerted although the view holds loaded records,
\* all of them excluded by the filters.
C10_Witness ==
  /\ last.op = "exportCsv"
  /\ out.kind = "alert"
  /\ Len(list) > 0
  /\ Len(Sorted) = 0

\* The field names, in the fixed order.
C11_Names == << <<"i","d">>, <<"c","a","t","t","l","e">>, <<"d","i","s","e","a","s","e">>,
  <<"c","o","n","f","i","d","e","n","c","e">>, <<"s","e","v","e","r","i","t","y">>,
  <<"s","u","b","m","i","t","t","e","d","_","b","y">>,
  <<"c","r","e","a","t","e","d","_","a","t">>,
  <<"r","e","v","i","e","w","_","s","t","a","t","u","s">>,
  <<"r","e","v","i","e","w","e","d","_","b","y">> >>

\* The nine field values of an exported row, as text, in the fixed order.
C11_Fields(r) ==
  <<IdText(r.id), r.cattle, r.disease, r.confidence, r.severity, r.submitted_by,
    r.created_at, r.review_status, ValText(r.reviewed_by)>>

\* Reading quoted text back.  A character stands outside quotes when an even
\* number of quotes precedes it; a line break outside quotes ends a row and
\* a comma outside quotes ends a field.
C11_QuotesBefore(t, i) == Cardinality({j \in 1..(i - 1) : t[j] = "\""})
C11_Breaks(t, c) == {i \in 1..Len(t) : t[i] = c /\ C11_QuotesBefore(t, i) % 2 = 0}
C11_Nth(S, n) == CHOOSE i \in S : Cardinality({j \in S : j < i}) = n - 1
C11_Split(t, c) ==
  LET S == C11_Breaks(t, c)
      m == Cardinality(S)
      From(k) == IF k = 1 THEN 1 ELSE C11_Nth(S, k - 1) + 1
      To(k) == IF k = m + 1 THEN Len(t) ELSE C11_Nth(S, k) - 1
  IN [k \in 1..(m + 1) |-> SubSeq(t, From(k), To(k))]

\* Un-escaping one field: it is wrapped in quotes, and inside the wrapping
\* every quote that opens a pair is followed by its twin, which is dropped.
C11_NotAField == <<"?">>
C11_Unquote(f) ==
  IF Len(f) < 2 \/ f[1] # "\"" \/ f[Len(f)] # "\"" THEN C11_NotAField
  ELSE LET e == SubSeq(f, 2, Len(f) - 1)
           Opens(i) == e[i] = "\"" /\ C11_QuotesBefore(e, i) % 2 = 0
           Twin(i) == e[i] = "\"" /\ C11_QuotesBefore(e, i) % 2 = 1
           kept == {i \in 1..Len(e) : ~Twin(i)}
       IN IF \E i \in 1..Len(e) : Opens(i) /\ (i = Len(e) \/ e[i + 1] # "\"")
            THEN C11_NotAField
            ELSE [n \in 1..Cardinality(kept) |-> e[C11_Nth(kept, n)]]
C11_ReadRow(line) ==
  LET fields == C11_Split(line, ",")
  IN [k \in 1..Len(fields) |-> C11_Unquote(fields[k])]

\* C11: the exported text is the header row of the nine field names joined by
\* commas, followed by one row per record; every data row reads back as
\* exactly nine fields, each wrapped in quotes with inner quotes doubled, and
\* un-escaping them gives the row's field values in the fixed order.
C11_CsvRoundTrip ==
  (out.kind = "download") =>
    LET lines == C11_Split(CsvText(out.lines), "\n")
        rows == ExportRows(Sorted)
    IN /\ Len(lines) = Len(rows) + 1
       /\ lines[1] = JoinFrom(C11_Names, <<",">>, 1)
       /\ \A i \in 1..Len(rows) :
            /\ Len(C11_ReadRow(lines[i + 1])) = 9
            /\ C11_ReadRow(lines[i + 1]) = C11_Fields(rows[i])

\* C11 witness: an export of two records, with a field holding a double
\* quote, a field holding a comma and a field holding a line break.
C11_Has(c) ==
  \E i \in 1..Len(Sorted) :
    \E k \in 1..9 : \E j \in 1..Len(C11_Fields(ExportRow(Sorted[i]))[k]) :
      C11_Fields(ExportRow(Sorted[i]))[k][j] = c
C11_Witness ==
  /\ out.kind = "download"
  /\ Len(Sorted) = 2
  /\ C11_Has("\"") /\ C11_Has(",") /\ C11_Has("\n")

\* C12: for every query, severity filter and list, applying the filter with
\* the same query and severity to the already-filtered result returns that
\* same result.
C12_FilterIdempotent == (pStage = "refiltered") => pAgain = pFiltered

\* C12 witness: a second pass over a result from which the first pass, with a
\* non-blank query and a severity filter, had dropped records.
C12_Witness ==
  /\ pStage = "refiltered"
  /\ ~C5_Blank(pIn.search)
  /\ pIn.severity # STR_all
  /\ Len(pFiltered) > 0
  /\ Len(pFiltered) < Len(pIn.list)
  /\ pAgain = pFiltered

\* C13: the Dashboard's two fetches fail as a unit: once either request has
\* rejected, the cattle list and the diagnosis list are both empty, whatever
\* the other request returned and whenever it returned; no state holds a
\* fetched collection next to a rejected request.
C13_Rejected == dash_reqCattle.status = "rejected" \/ dash_reqDiag.status = "rejected"
C13_FailAsUnit ==
  /\ C13_Rejected => (dash_cattle = <<>> /\ dash_diagnoses = <<>>)
  /\ (C13_Rejected /\ dash_settled /\ ~dash_cancelled) => ~dash_loading
  /\ (dash_cattle # <<>> \/ dash_diagnoses # <<>>) =>
       (dash_reqCattle.status = "fulfilled" /\ dash_reqDiag.status = "fulfilled")

\* C13 witness: the cattle request was fulfilled with records, the diagnosis
\* request rejected, and the mounted dashboard shows neither.
C13_Witness ==
  /\ dash_reqCattle.status = "fulfilled" /\ dash_reqCattle.data # <<>>
  /\ dash_reqDiag.status = "rejected"
  /\ dash_settled /\ ~dash_cancelled
  /\ dash_cattle = <<>> /\ dash_diagnoses = <<>> /\ ~dash_loading

\* C14 (as claimed): when login() has thrown (the POST rejected, the response
\* held no access token, or the profile fetch rejected) and nothing else
\* touched the session meanwhile, the user, the persisted token and the
\* default Authorization header are what they were before the call, and
\* authenticating is false again.
C14_FailedLoginChangesNothing ==
  (lgn.stage = "threw" /\ lgn.clean) =>
    /\ Session = lgn.before
    /\ ~auth_authenticating

\* C18 (as claimed): a request sent through the client carries a bearer
\* token if and only if a token is persisted, and then that token.
C18_BearerIffPersisted == (sent.kind = "sent") => sent.carried = sent.persisted

\* C19 (as claimed): from logout() until a login or register call started
\* after it signs in, the user is absent, no token is persisted and no
\* default Authorization header is set.
C19_StaysCleared ==
  cleared => (auth_user = NoUser /\ stored = NoToken /\ header = NoToken)

\* C20: the session starts with no user and loading true; the bootstrap
\* fetches the profile exactly when a token is stored, and the step that ends
\* it leaves loading false and: without a stored token, no user; on a
\* fulfilled profile fetch, that profile as user; on a rejected one, no user,
\* no persisted token and no default Authorization header.
C20_EndsBootstrap ==
  /\ boot'.stage \in {"noToken", "fulfilled", "rejected"}
  /\ boot'.stage # boot.stage
C20_Bootstrap ==
  /\ [](boot.stage = "start" => (auth_user = NoUser /\ auth_loading))
  /\ [][ /\ (boot.stage = "start" /\ boot'.stage # "start") =>
              (IF stored = NoToken THEN boot'.stage = "noToken" ELSE boot'.stage = "fetching")
         /\ C20_EndsBootstrap =>
              /\ ~auth_loading'
              /\ boot'.stage = "noToken" => (stored' = NoToken /\ auth_user' = NoUser)
              /\ boot'.stage = "fulfilled" =>
                   (boot.carried # NoToken /\ auth_user' = ProfileOf(boot.carried))
              /\ boot'.stage = "rejected" =>
                   (auth_user' = NoUser /\ stored' = NoToken /\ header' = NoToken) ]_vars

\* C20 witness: the page loaded with a stored token, its profile fetch was
\* rejected, and the token is gone from storage and from the default header.
C20_Witness ==
  /\ boot.stage = "rejected" /\ boot.carried # NoToken
  /\ auth_user = NoUser /\ stored = NoToken /\ header = NoToken
  /\ ~auth_loading
  /\ NoCallInFlight /\ ~cleared /\ ~reloading

\* C15: in CattleRecords the step in which a create, an update or a delete
\* request fails leaves the cattle list as it was, and the list changes only
\* in a step in which the server acknowledges a create, an update or a
\* delete (or answers the initial load).
C15_SubmitFails == cr_submit.status = "pending" /\ cr_submit'.status = "rejected"
C15_DeleteFails == cr_delete.status = "pending" /\ cr_delete'.status = "rejected"
C15_Acknowledged ==
  \/ cr_submit.status = "pending" /\ cr_submit'.status = "fulfilled"
  \/ cr_delete.status = "pending" /\ cr_delete'.status = "fulfilled"
  \/ cr_req.status = "pending" /\ cr_req'.status = "fulfilled"
C15_FailureKeepsList ==
  [][ /\ (C15_SubmitFails \/ C15_DeleteFails) => cr_list' = cr_list
      /\ (cr_list' # cr_list) => C15_Acknowledged ]_vars

\* C15 witness: an update of a listed record was rejected; the list still
\* holds its records and the form is still open.
C15_Witness ==
  /\ cr_submit.status = "rejected" /\ cr_submit.kind = "put"
  /\ cr_alert /\ cr_showModal
  /\ Len(cr_list) = 2
  /\ cr_delete.status = "rejected"

\* C16 (as claimed): every step in which a cattle create, update or delete,
\* a review submission, a login or a register fails shows the user an alert.
C16_FailureNotifies ==
  [][ /\ C15_SubmitFails => cr_alert'
      /\ C15_DeleteFails => cr_alert'
      /\ (rv_req.status = "pending" /\ rv_req'.status = "rejected") => rv_out'.alert = "failed"
      /\ (InFlight(lgn) /\ lgn'.stage = "threw") => auth_alert'
      /\ (InFlight(reg) /\ reg'.stage = "threw") => auth_alert' ]_vars

\* C17: the diagnosis held by DiagnosisDetail is replaced only in the step in
\* which a review POST fulfils, and then by the record the server returned;
\* the step in which a review POST is rejected leaves the held diagnosis
\* unchanged, does not call onSaved, and leaves the review modal open.
C17_ReviewFulfils == rv_saving /\ rv_req.status = "pending" /\ rv_req'.status = "fulfilled"
C17_ReviewFails == rv_saving /\ rv_req.status = "pending" /\ rv_req'.status = "rejected"
C21_Conf(r) == IF r.confidence = NoValue THEN 0 ELSE r.confidence
C21_Pos(l, id) == CHOOSE i \in 1..Len(l) : l[i].id = id
C21_AbsentIsEarliest ==
  pStage = "sorted" =>
    \A i, j \in 1..Len(pSorted) :
      LET a == pSorted[i]
          b == pSorted[j]
      IN /\ (pIn.key = "newest" /\ a.created_at = NoValue /\ b.created_at # NoValue) => j < i
         /\ (pIn.key = "oldest" /\ a.created_at = NoValue /\ b.created_at # NoValue) => i < j
         /\ (pIn.key = "confidence_desc" /\ i < j) =>
               \/ C21_Conf(a) > C21_Conf(b)
               \/ C21_Conf(a) = C21_Conf(b) /\ C21_Pos(pFiltered, a.id) < C21_Pos(pFiltered, b.id)
         /\ (pIn.key = "confidence_asc" /\ i < j) =>
               \/ C21_Conf(a) < C21_Conf(b)
               \/ C21_Conf(a) = C21_Conf(b) /\ C21_Pos(pFiltered, a.id) < C21_Pos(pFiltered, b.id)

\* C21 witness: sorted by ascending confidence, a record without confidence
\* that came after a record of confidence 0 and before a record of positive
\* confidence in the filtered list; it has no timestamp either.
C21_Witness ==
  /\ pStage = "sorted" /\ pIn.key = "confidence_asc"
  /\ Len(pFiltered) = 3 /\ Len(pSorted) = 3
  /\ pFiltered[1].confidence = 0
  /\ pFiltered[2].confidence = NoValue /\ pFiltered[2].created_at = NoValue
  /\ pFiltered[3].confidence > 0
  /\ pSorted[2].id = pFiltered[2].id

\* C22 (as claimed): the display name of a record is the nested cattle
\* object's name, else its tag number, else "Cattle #id" when the cattle
\* reference is an id, else "Unknown"; the display disease is the processed
\* override, else top_prediction.disease, else the disease of the first
\* prediction, else "No prediction".  Stated on the cattle and disease columns
\* of the rows an export has just written.
C22_Disease(item) ==
  IF Truthy(item.ml_top_processed) THEN item.ml_top_processed.s
  ELSE IF Truthy(item.top_processed) THEN item.top_processed.s
  ELSE IF Truthy(item.top_prediction) THEN item.top_prediction.s
  ELSE IF item.predictions # <<>> /\ Truthy(item.predictions[1]) THEN item.predictions[1].s
  ELSE STR_NoPrediction
C22_NameAsClaimed(item) ==
  IF item.cattle.k = "obj" /\ item.cattle.name # <<>> THEN item.cattle.name
  ELSE IF item.cattle.k = "obj" /\ item.cattle.tag_number # <<>> THEN item.cattle.tag_number
  ELSE IF item.cattle.k = "num" THEN STR_CattleHash \o NumStr(item.cattle.num)
  ELSE STR_Unknown
C22_Exported == last.op = "exportCsv" /\ out.kind = "download"
C22_Line(d, name) == CsvLine([ExportRow(d) EXCEPT !.cattle = name, !.disease = C22_Disease(d)])
C22_Name(item) ==
  IF item.cattle.k = "obj" /\ item.cattle.name # <<>> THEN item.cattle.name
  ELSE IF item.cattle.k = "obj" /\ item.cattle.tag_number # <<>> THEN item.cattle.tag_number
  ELSE IF item.cattle.k # "obj" /\ item.cattle_name # <<>> THEN item.cattle_name
  ELSE IF item.cattle.k = "num" THEN STR_CattleHash \o NumStr(item.cattle.num)
  ELSE STR_Unknown
C23_Percent(d) ==
  IF d.confidence = NoValue THEN <<>> ELSE NumStr(RoundPercent(d.confidence)) \o <<"%">>
C23_ConfidenceIsPercent ==
  (last.op = "exportCsv" /\ out.kind = "download") =>
    \A i \in 1..Len(Sorted) :
      out.lines[i + 1] = CsvLine([ExportRow(Sorted[i]) EXCEPT !.confidence = C23_Percent(Sorted[i])])

\* C24 (as claimed): in CattleRecords an acknowledged create prepends the
\* returned record to the list as it is then, an acknowledged update replaces
\* the record with the same id and keeps length and order, an acknowledged
\* delete removes exactly the record with that id; and the response of the
\* initial load, arriving after such acknowledgements, drops no record the
\* list holds by then.
C24_Acked(call, kind) == call.status = "pending" /\ call'.status = "fulfilled" /\ call.kind = kind
C24_AppliedAndKept ==
  [][ /\ C24_Acked(cr_submit, "post") =>
            (Len(cr_list') = Len(cr_list) + 1 /\ Tail(cr_list') = cr_list)
      /\ C24_Acked(cr_submit, "put") =>
            /\ Len(cr_list') = Len(cr_list)
            /\ \A i \in 1..Len(cr_list) :
                  /\ cr_list'[i].id = cr_list[i].id
                  /\ (cr_list[i].id # cr_submit.id) => cr_list'[i] = cr_list[i]
      /\ C24_Acked(cr_delete, "delete") =>
            LET Kept(c) == c.id # cr_delete.id IN cr_list' = SelectSeq(cr_list, Kept)
      /\ (cr_req.status = "pending" /\ cr_req'.status = "fulfilled") =>
            Ids(cr_list) \subseteq Ids(cr_list') ]_vars

\* C25 (as claimed): when login() has just resolved with a profile while the
\* bootstrap's profile request is still in flight, the step in which that
\* bootstrap request is rejected leaves the user and the persisted token as
\* the login set them.
C25_LoginSurvivesBootstrap ==
  [][ (lgn.stage = "returned" /\ boot.stage = "fetching" /\ boot'.stage = "rejected") =>
        (auth_user' = auth_user /\ stored' = stored) ]_vars

\* C26: on every protected route the wrapped page is rendered only while the
\* session is not loading and a user is present; while the session is loading
\* the route renders nothing, and once loading has ended without a user it
\* redirects to /login.
C26_ProtectedRoutes ==
  \A path \in ProtectedRoutes :
    /\ (RouteElement(path) = "children") => (~auth_loading /\ auth_user # NoUser)
    /\ auth_loading => RouteElement(path) = "nothing"
    /\ (~auth_loading /\ auth_user = NoUser) => RouteElement(path) = "redirect"

\* C26 witness: a login has set the user while the bootstrap is still
\* loading; the protected routes render nothing.
C26_Witness ==
  /\ auth_loading /\ auth_user # NoUser
  /\ boot.stage = "fetching"
  /\ RouteElement("/cattle") = "nothing"

\* C27 (as claimed): whenever the mounted DiagnosisDetail is not loading, the
\* diagnosis it holds is absent or is the record of the route's current id.
C27_ShowsRouteRecord ==
  (det_mounted /\ ~det_loading) => (det_diagnosis = <<>> \/ det_diagnosis[1].id = det_id)

\* C28: a DiagnosisHistory that is loading and stays mounted is eventually
\* not loading, and a session that is loading is eventually not loading,
\* provided the pending request is eventually fulfilled or rejected.
C28_LeavesLoading ==
  /\ (loading /\ mounted) ~> (~loading \/ ~mounted)
  /\ auth_loading ~> ~auth_loading

\* C28 witness: both requests were rejected; the history view shows the
\* empty state and the session has ended loading without a user.
C28_Witness ==
  /\ mounted /\ req.status = "rejected" /\ ~loading /\ list = <<>>
  /\ boot.stage = "rejected" /\ ~auth_loading /\ auth_user = NoUser

\* C29: the file list of NewDiagnosis never holds more than 6 files and
\* every file in it is an image of at most 10 MB; an onFiles call whose batch
\* contains a file that is not an image or is larger than 10 MB leaves the
\* list unchanged.
C29_BadBatch == \E i \in 1..Len(nd_selected') : ~FileOk(nd_selected'[i])
C29_FileList ==
  /\ [](Len(nd_files) <= 6 /\ \A i \in 1..Len(nd_files) :
          nd_files[i].size <= 10485760 /\ nd_files[i].type = TYPE_png)
  /\ [][C29_BadBatch => nd_files' = nd_files]_vars

\* C29 witness: with five files held, a batch of two good files was cut to
\* fit the limit of six.
C29_Witness ==
  /\ Len(nd_files) = 6 /\ Len(nd_selected) = 2 /\ ~nd_alert
  /\ nd_files[6] = nd_selected[1]
  /\ nd_files[5] # nd_selected[1]
  /\ nd_selected[2].size # nd_selected[1].size

\* C30: on the Dashboard the healthy, under-treatment and critical counts sum
\* to the number of cattle; a cattle record is critical iff its most recent
\* diagnosis (the greatest creation time among the diagnoses the server sent
\* for it, the first sent on a tie) has severity high, under treatment iff
\* that diagnosis has severity medium, and healthy otherwise.
C30_Of(c) == {j \in 1..Len(dash_reqDiag.data) : dash_reqDiag.data[j].cattle.num = c.id}
C30_MostRecent(c) ==
  dash_reqDiag.data[CHOOSE j \in C30_Of(c) : \A k \in C30_Of(c) :
     \/ dash_reqDiag.data[k].created_at < dash_reqDiag.data[j].created_at
     \/ dash_reqDiag.data[k].created_at = dash_reqDiag.data[j].created_at /\ j <= k]
C30_Severity(c) ==
  IF dash_diagnoses = <<>> \/ C30_Of(c) = {} THEN <<>> ELSE C30_MostRecent(c).severity
C30_HealthBuckets ==
  /\ HealthCount("healthy") + HealthCount("underTreatment") + HealthCount("critical")
       = Len(dash_cattle)
  /\ \A i \in 1..Len(dash_cattle) :
       LET c == dash_cattle[i]
           h == HealthOf(c, dash_diagnoses)
       IN /\ h = "critical" <=> C30_Severity(c) = STR_high
          /\ h = "underTreatment" <=> C30_Severity(c) = STR_medium
          /\ h = "healthy" <=> C30_Severity(c) \notin {STR_high, STR_medium}

\* C30 witness: two cattle; the newest diagnosis of one is medium although
\* an older one is high, the other has a newest diagnosis without severity.
C30_Witness ==
  /\ Len(dash_cattle) = 2 /\ Len(dash_diagnoses) = 3
  /\ HealthCount("underTreatment") = 1 /\ HealthCount("healthy") = 1
  /\ \E j \in 1..3 : dash_diagnoses[j].severity = STR_high

=============================================================================
